---- MODULE Spec2Model ----
(***************************************************************************)
(* A model of the page layout engine of synt_gen_on_christ:                *)
(*   - the two-column page packer generate_layout, in its two variants     *)
(*     (document_pipeline/layout_generation.py, "doc", and                 *)
(*     pict_data_pipeline/layout_generation_with_image.py, "pic");         *)
(*   - the word typesetter layout_words with its overlap resolver          *)
(*     _fix_vertical_overlaps (document_pipeline/layout_generation.py);    *)
(*   - the size estimator generate_json_with_sizes with the text wrapper   *)
(*     and the measurements of utils/count_bbox_size.py;                   *)
(*   - the document pipeline that runs the estimator and then the packer   *)
(*     (document_pipeline/complete_pipe_doc.py);                           *)
(*   - the multi-process driver of main.py: its workers with their retry  *)
(*     policy, the collector and its batches.                              *)
(* Each component has its own specification (Spec, SpecTypeset, SpecPipe); *)
(* the variables of the components that do not run stay idle in it.        *)
(* Python objects live in a heap (a sequence of records, the address of an *)
(* object being its index), so that deepcopy, dict(b) and in-place writes   *)
(* are distinguishable from one another.  A dict is a function from its     *)
(* keys; a key the dict does not hold is not in the function's domain.      *)
(* A string is the sequence of its characters.                              *)
(***************************************************************************)
EXTENDS Integers, Sequences, FiniteSets, TLC

(***************************************************************************)
(* Bounds of the model.                                                    *)
(***************************************************************************)
\* The longest block list handed to generate_layout.
MaxBlocks == 3
\* The longest token list handed to layout_words.
MaxTokens == 5
\* The longest block list handed to the document pipeline.
MaxPipeBlocks == 2

VARIABLES
    variant,          \* which generate_layout is running
    page_w, page_h,   \* the page size given to the call
    margin, gutter, v_gap,
    scale_to_column,  \* the pic variant's policy flag
    style_map,        \* the typography: the padding and the per-type profiles
    heap,             \* the Python heap: address -> object
    data,             \* address of the document generate_layout is called with
    input0,           \* the heap as the caller handed it over (history)
    out,              \* address of generate_layout's working copy (0: none)
    k,                \* index of the block the loop is at
    y_col, col_idx,   \* the two column cursors, the current column (0 or 1)
    laid_blocks,      \* addresses of the placed blocks, in placement order
    status,           \* "start", "loop", "ok" or the kind of the error raised
    ret,              \* address of the returned document (0: none)
    \* layout_words
    words,            \* b["words"]: the tokens, each with content and bbox_size
    block_bbox,       \* the bbox the block was placed with
    padding_px, leading_px, space_px, base_line_h_px,   \* in 1/SubPx pixels
    cursor_x, cursor_y, current_line_h,                 \* in 1/SubPx pixels
    out_words,        \* the placed words
    line_word_indices,\* per logical line, the indices of its words in out_words
    w_i,              \* index of the token the loop is at
    f_i,              \* index of the upper line of the pair the resolver is at
    pc_t,             \* "idle", "words", "fix", "done" or "none" (returned None)
    \* generate_json_with_sizes
    layout_json,      \* address of the document the estimator is called with
    picture,          \* the size of the image at picture_path, <<>> for None
    split_idx,        \* the random split boundary
    s_i,              \* index of the block the estimator's loop is at
    lines,            \* the estimator's local of that name
    out_blocks,       \* addresses of the estimator's block records
    sized,            \* address of the estimator's result (0: none)
    s_pc,             \* "idle", "start", "loop", "done" or the kind of the error
    \* the pipeline
    run,              \* which of the two runs on the same input is under way
    draws,            \* per run, the values drawn from the random module
    results,          \* per run that is over, the outcome
    \* one call of the estimate of a text block
    e_content,        \* the block's content
    e_max_width_px,   \* the width limit
    e_padding,        \* the padding, in 1/SubPx pixels
    e_lines,          \* the lines wrap_text_to_lines has collected
    e_seg,            \* index of the segment (of the line) the loop is at
    e_size,           \* what measure_bbox_size_for_block returned (<<>>: not yet)
    e_words,          \* what split_lines_to_tokens returned
    e_rewrap,         \* per line, what wrapping that line alone returns
    e_pc,             \* "idle", "wrap", "measure", "tokens", "rewrap" or "done"
    \* wrap_text_to_lines called on its own
    wr_text,          \* the text
    wr_font,          \* the metrics of the font it is called with
    wr_limit,         \* max_text_width_px
    wr_lines,         \* what the call returned (when wr_pc is "done")
    wr_pc,            \* "idle", "call" or "done"
    \* the two variants of generate_layout called with the same arguments
    both_first,       \* how the call of the doc variant ended (<<>>: not yet)
    args,             \* main: the parsed command line ([] when main does not run)
    task_q, result_q, \* main: the two multiprocessing queues
    workers,          \* main: the state of every worker process
    put_n,            \* main: how many items main has put on task_q
    done,             \* main: the results collected
    batch_dirs, batch_bytes, batch_idx,
    tar_log,          \* main: the src_dirs of every call of make_tar_gz
    taken,            \* main: how often each task was taken from task_q
    received,         \* main: ok and idx of the messages collected, in order
    m_pc              \* main: "idle", "enqueue", "collect" or "end"

\* The typesetter's variables.
tvars == <<words, block_bbox, padding_px, leading_px, space_px, base_line_h_px,
           cursor_x, cursor_y, current_line_h, out_words, line_word_indices,
           w_i, f_i, pc_t>>

\* The packer's variables.
pvars == <<variant, page_w, page_h, margin, gutter, v_gap, scale_to_column,
           style_map, heap, data, input0, out, k, y_col, col_idx, laid_blocks,
           status, ret>>

\* The estimator's variables.
svars == <<layout_json, picture, split_idx, s_i, lines, out_blocks, sized, s_pc>>

\* The pipeline's variables.
rvars == <<run, draws, results>>

\* The variables of one estimate.
evars == <<e_content, e_max_width_px, e_padding, e_lines, e_seg, e_size, e_words,
           e_rewrap, e_pc>>

\* The variables of one call of wrap_text_to_lines.
wvars == <<wr_text, wr_font, wr_limit, wr_lines, wr_pc>>

\* The variables of the components added to the model later on.
mvars == <<args, task_q, result_q, workers, put_n, done, batch_dirs, batch_bytes,
           batch_idx, tar_log, taken, received, m_pc>>
xvars == <<wvars, both_first, mvars>>

vars == <<pvars, tvars, svars, rvars, evars, xvars>>

\* What no step of the packer changes: its parameters, the caller's snapshot
\* and the variables of the other components.
params == <<variant, page_w, page_h, margin, gutter, v_gap, scale_to_column,
            style_map, data, input0, tvars, svars, rvars, evars, xvars>>

Max(a, b) == IF a >= b THEN a ELSE b
Min(a, b) == IF a <= b THEN a ELSE b
Range(f) == {f[i] : i \in DOMAIN f}
MaxOver(S) == IF S = {} THEN 0 ELSE CHOOSE m \in S : \A x \in S : x <= m
MinOver(S) == CHOOSE m \in S : \A x \in S : m <= x

(***************************************************************************)
(* Python's round() of the non-negative rational n/d: to the nearest       *)
(* integer, a tie to the even one.                                          *)
(***************************************************************************)
RoundHalfEven(n, d) ==
    LET q == n \div d
        r == n % d
    IN  IF 2 * r < d THEN q
        ELSE IF 2 * r > d THEN q + 1
        ELSE IF q % 2 = 0 THEN q ELSE q + 1

\* math.ceil of the rational n/d, d > 0.
CeilDiv(n, d) == -((-n) \div d)

(***************************************************************************)
(* Pixel lengths that the code holds as floats (the padding, the leading,  *)
(* glyph and space widths, line heights, the typesetter's cursor) are      *)
(* counted in 1/SubPx pixels; bbox_size and bbox are whole pixels.         *)
(***************************************************************************)
SubPx == 2

\* int(round(v)) of a length held in 1/SubPx pixels.
Px(v) == RoundHalfEven(v, SubPx)

(***************************************************************************)
(* Dicts and heap objects.                                                 *)
(***************************************************************************)
HasKey(d, key) == key \in DOMAIN d
\* d[key] = v
DSet(d, key, v) == [x \in DOMAIN d \cup {key} |-> IF x = key THEN v ELSE d[x]]

\* The string "\n".
NL == <<"\n">>

\* A block record as the packer expects it.
BlockObj(id, type, content, size) ==
    [id |-> id, type |-> type, content |-> content,
     bbox_size |-> size]

DocObj(blocks) == [blocks |-> blocks]

\* copy.deepcopy of a list of word records.
CopyWords(h, refs) ==
    [heap |-> h \o [i \in 1..Len(refs) |-> h[refs[i]]],
     refs |-> [i \in 1..Len(refs) |-> Len(h) + i]]

\* copy.deepcopy of a block record: new word records and a new block record.
DeepCopyBlock(h, a) ==
    IF HasKey(h[a], "words")
    THEN LET cw == CopyWords(h, h[a].words)
         IN  [heap |-> Append(cw.heap, [h[a] EXCEPT !.words = cw.refs]),
              ref |-> Len(cw.heap) + 1]
    ELSE [heap |-> Append(h, h[a]), ref |-> Len(h) + 1]

RECURSIVE CopyBlocksFrom(_, _, _, _)
CopyBlocksFrom(h, src, i, acc) ==
    IF i > Len(src) THEN [heap |-> h, refs |-> acc]
    ELSE LET c == DeepCopyBlock(h, src[i])
         IN  CopyBlocksFrom(c.heap, src, i + 1, Append(acc, c.ref))

\* A slip that works on the caller's document itself.
DeepCopyDoc_alias(h, a) == [heap |-> h, ref |-> a]

\* copy.deepcopy of a document: new records throughout.
DeepCopyDoc(h, a) ==
    LET cb == CopyBlocksFrom(h, h[a].blocks, 1, <<>>)
    IN  [heap |-> Append(cb.heap, [h[a] EXCEPT !.blocks = cb.refs]),
         ref |-> Len(cb.heap) + 1]

(***************************************************************************)
(* Font metrics and text measurement (utils/count_bbox_size.py).  A        *)
(* profile holds what the font metrics give for one style at the style     *)
(* map's resolution: the advance of a glyph, of a wide glyph ("W") and of  *)
(* the space, the loose and the tight line height and the leading, all in  *)
(* 1/SubPx pixels.                                                         *)
(***************************************************************************)
Profile(name, glyph, wide, space, loose, tight, lead) ==
    [font_name |-> name, glyph_w |-> glyph, wide_w |-> wide, space_w |-> space,
     line_h |-> loose, tight_h |-> tight, leading |-> lead]

GlyphW(ch, f) ==
    IF ch = " " THEN f.space_w
    ELSE IF ch = "W" THEN f.wide_w
    ELSE f.glyph_w

\* The width of string s, in 1/SubPx pixels.
RECURSIVE string_width_px(_, _)
string_width_px(s, f) ==
    IF s = <<>> THEN 0 ELSE GlyphW(Head(s), f) + string_width_px(Tail(s), f)

\* s.split(sep): the pieces of s between the occurrences of the character sep.
RECURSIVE SplitFrom(_, _, _, _)
SplitFrom(s, seps, i, cur) ==
    IF i > Len(s) THEN <<cur>>
    ELSE IF s[i] \in seps THEN <<cur>> \o SplitFrom(s, seps, i + 1, <<>>)
    ELSE SplitFrom(s, seps, i + 1, Append(cur, s[i]))

Split(s, sep) == SplitFrom(s, {sep}, 1, <<>>)

\* line.replace("\t", "    ")
RECURSIVE ReplaceTabs(_)
ReplaceTabs(s) ==
    IF s = <<>> THEN <<>>
    ELSE (IF Head(s) = "\t" THEN <<" ", " ", " ", " ">> ELSE <<Head(s)>>)
             \o ReplaceTabs(Tail(s))

\* A slip that turns a line away that is exactly as wide as the limit.
fits_width_strict(s, mx, f) == string_width_px(s, f) < mx
\* A slip that lets a line through that is up to a pixel too wide.
fits_width_loose(s, mx, f) == string_width_px(s, f) <= mx + SubPx
\* fits of wrap_one_line; the limit mx is in 1/SubPx pixels.
fits_width(s, mx, f) == string_width_px(s, f) <= mx

\* The hard break of the word w by characters, from character i on.
RECURSIVE HardBreak(_, _, _, _, _)
\* A slip that leaves out a character that does not fit on a line of its own.
HardBreak_drop(st, w, i, mx, f) ==
    IF i > Len(w) THEN st
    ELSE LET cand == Append(st.cur, w[i])
         IN  IF fits_width(cand, mx, f)
             THEN HardBreak([st EXCEPT !.cur = cand], w, i + 1, mx, f)
             ELSE IF st.cur = <<>> THEN HardBreak(st, w, i + 1, mx, f)
             ELSE HardBreak([out |-> Append(st.out, st.cur), cur |-> <<w[i]>>],
                            w, i + 1, mx, f)

HardBreak(st, w, i, mx, f) ==
    IF i > Len(w) THEN st
    ELSE LET cand == Append(st.cur, w[i])
         IN  IF fits_width(cand, mx, f) \/ st.cur = <<>>
             THEN HardBreak([st EXCEPT !.cur = cand], w, i + 1, mx, f)
             ELSE HardBreak([out |-> Append(st.out, st.cur), cur |-> <<w[i]>>],
                            w, i + 1, mx, f)

\* A slip that appends the current line even when it is empty.
Flushed_always(st) == Append(st.out, st.cur)
\* if cur: out.append(cur)
Flushed(st) == IF st.cur # <<>> THEN Append(st.out, st.cur) ELSE st.out

\* One turn of wrap_one_line's loop over the words.
WrapWord(st, w, mx, f) ==
    LET candidate == IF st.cur = <<>> THEN w ELSE (st.cur \o <<" ">>) \o w
    IN  IF fits_width(candidate, mx, f) THEN [st EXCEPT !.cur = candidate]
        ELSE IF fits_width(w, mx, f) THEN [out |-> Flushed(st), cur |-> w]
        ELSE HardBreak([out |-> Flushed(st), cur |-> <<>>], w, 1, mx, f)

RECURSIVE WrapWords(_, _, _, _, _)
WrapWords(st, ws, i, mx, f) ==
    IF i > Len(ws) THEN st
    ELSE WrapWords(WrapWord(st, ws[i], mx, f), ws, i + 1, mx, f)

wrap_one_line(line, mx, f) ==
    IF line = <<>> THEN << <<>> >>
    ELSE Flushed(WrapWords([out |-> <<>>, cur |-> <<>>],
                           Split(ReplaceTabs(line), " "), 1, mx, f))

RECURSIVE WrapSegments(_, _, _, _)
WrapSegments(segs, i, mx, f) ==
    IF i > Len(segs) THEN <<>>
    ELSE wrap_one_line(segs[i], mx, f) \o WrapSegments(segs, i + 1, mx, f)

wrap_text_to_lines(text, max_text_width_px, f) ==
    WrapSegments(Split(text, "\n"), 1, max_text_width_px * SubPx, f)

\* if not lines: lines = [""]
NonEmptyLines(wrapped) == IF wrapped = <<>> THEN << <<>> >> ELSE wrapped

\* (w, h, lines) for the wrapped lines lns of a text block.
BlockSize(lns, max_width_px, f, pad) ==
    LET pad_px == CeilDiv(pad, SubPx)
        max_line_w_px == MaxOver({string_width_px(lns[i], f) : i \in 1..Len(lns)})
        total_h == f.line_h + Max(0, Len(lns) - 1) * f.leading + 2 * pad
    IN  [w |-> CeilDiv(Min(max_width_px * SubPx, max_line_w_px + 2 * pad_px * SubPx),
                       SubPx),
         h |-> CeilDiv(total_h, SubPx),
         lines |-> lns]

\* (w, h, lines) for a text block; pad is the padding in 1/SubPx pixels.
measure_bbox_size_for_block(content, max_width_px, f, pad) ==
    BlockSize(NonEmptyLines(wrap_text_to_lines(
                  content, max_width_px - 2 * CeilDiv(pad, SubPx), f)),
              max_width_px, f, pad)

\* (w_px, h_px) for one token, w_px in 1/SubPx pixels.
measure_bbox_size_for_one_word(text, f) ==
    IF text = <<>> THEN <<1 * SubPx, 1>>
    ELSE <<string_width_px(text, f), Max(1, CeilDiv(f.tight_h, SubPx))>>

\* re.findall(r"\n|[^\s]+", line) on a line that holds no "\n".
Whitespace == {" ", "\t"}
NonSpaceRuns(line) ==
    SelectSeq(SplitFrom(line, Whitespace, 1, <<>>), LAMBDA t : t # <<>>)

TokensOf(runs) == [j \in 1..Len(runs) |-> [content |-> runs[j]]]

\* A slip that ends every line, the last one too, with a newline token.
RECURSIVE split_lines_to_tokens_trailing(_, _)
split_lines_to_tokens_trailing(lns, i) ==
    IF i > Len(lns) THEN <<>>
    ELSE TokensOf(NonSpaceRuns(lns[i])) \o <<[content |-> NL]>>
         \o split_lines_to_tokens_trailing(lns, i + 1)

RECURSIVE split_lines_to_tokens(_, _)
split_lines_to_tokens(lns, i) ==
    IF i > Len(lns) THEN <<>>
    ELSE TokensOf(NonSpaceRuns(lns[i]))
         \o (IF i < Len(lns) THEN <<[content |-> NL]>> ELSE <<>>)
         \o split_lines_to_tokens(lns, i + 1)

(***************************************************************************)
(* layout_words: the word typesetter.  Its locals are the record           *)
(* [cursor_x, cursor_y, current_line_h, out_words, line_word_indices]; the *)
(* lengths it derives from the style are the record                        *)
(* [left, top, leading_px, space_px, base_line_h_px].                      *)
(***************************************************************************)
NewlineToken == [content |-> NL, bbox_size |-> <<0, 0>>]
WordToken(w, h) == [content |-> <<"w">>, bbox_size |-> <<w, h>>]
\* A word record that carries no size.
SizelessToken == [content |-> <<"w">>]

\* The locals before the loop over the tokens.
TsStart(P) ==
    [cursor_x |-> P.left, cursor_y |-> P.top, current_line_h |-> P.base_line_h_px,
     out_words |-> <<>>, line_word_indices |-> << <<>> >>]

\* A slip that adds the leading twice.
NewLineY_twice(cy, lead) == cy + 2 * lead
\* _new_line: back to the left edge, down by the leading.
NewLineY(cy, lead) == cy + lead

\* The word record placed for token tok with the cursor at (cx, cy).
PlacedWord(tok, cx, cy) ==
    LET ww == tok.bbox_size[1] * SubPx
        wh == tok.bbox_size[2] * SubPx
    IN  DSet(DSet(tok, "bbox_size", tok.bbox_size),
             "bbox", <<Px(cx), Px(cy), Px(cx + ww), Px(cy + wh)>>)

\* One turn of the loop over the tokens.
TsToken(st, tok, P) ==
    IF tok.content = NL
    THEN [st EXCEPT !.cursor_x = P.left,
                    !.cursor_y = NewLineY(@, P.leading_px),
                    !.current_line_h = P.base_line_h_px,
                    !.line_word_indices = Append(@, <<>>)]
    ELSE [st EXCEPT !.current_line_h = Max(@, tok.bbox_size[2] * SubPx),
                    !.out_words = Append(@, PlacedWord(tok, st.cursor_x, st.cursor_y)),
                    !.line_word_indices =
                        [@ EXCEPT ![Len(st.line_word_indices)] =
                            Append(@, Len(st.out_words) + 1)],
                    !.cursor_x = @ + tok.bbox_size[1] * SubPx + P.space_px]

RECURSIVE TsTokens(_, _, _, _)
TsTokens(st, ws, i, P) ==
    IF i > Len(ws) THEN st ELSE TsTokens(TsToken(st, ws[i], P), ws, i + 1, P)

(***************************************************************************)
(* _fix_vertical_overlaps.                                                 *)
(***************************************************************************)
\* upper_bottom and lower_top of the code.
UpperBottom(ow, line) == MaxOver({ow[idx].bbox[4] : idx \in Range(line)})
LowerTop(ow, line) == MinOver({ow[idx].bbox[2] : idx \in Range(line)})

\* A slip that takes the arithmetic mean of the two for the boundary.
Boundary_mean(U, L) == RoundHalfEven(U + L, 2)
\* b_int: the harmonic mean of the two, rounded.
Boundary(U, L) == IF U + L # 0 THEN RoundHalfEven(2 * U * L, U + L) ELSE 0

\* A slip that lowers a bottom to the boundary even past the word's top.
ClampUpper_bare(bb, b) == IF bb[4] > b THEN [bb EXCEPT ![4] = b] ELSE bb

\* The clamp of an upper line's word and of a lower line's word.
ClampUpper(bb, b) ==
    IF bb[4] > b
    THEN [bb EXCEPT ![4] = IF b < bb[2] THEN bb[2] ELSE b]
    ELSE bb

ClampLower(bb, b) ==
    IF bb[2] < b
    THEN [bb EXCEPT ![2] = IF b > bb[4] THEN bb[4] ELSE b]
    ELSE bb

\* A slip that lowers the bottom of every word that is not of the lower line.
ClampPair_all(ow, upper, lower, b) ==
    [i \in 1..Len(ow) |->
        IF i \in Range(lower) THEN [ow[i] EXCEPT !.bbox = ClampLower(@, b)]
        ELSE [ow[i] EXCEPT !.bbox = ClampUpper(@, b)]]

ClampPair(ow, upper, lower, b) ==
    [i \in 1..Len(ow) |->
        IF i \in Range(upper) THEN [ow[i] EXCEPT !.bbox = ClampUpper(@, b)]
        ELSE IF i \in Range(lower) THEN [ow[i] EXCEPT !.bbox = ClampLower(@, b)]
        ELSE ow[i]]

\* One turn of the resolver's loop: the pair of lines i and i + 1.
FixPair(ow, lns, i) ==
    IF lns[i] = <<>> \/ lns[i + 1] = <<>> THEN ow
    ELSE IF UpperBottom(ow, lns[i]) <= LowerTop(ow, lns[i + 1]) THEN ow
    ELSE ClampPair(ow, lns[i], lns[i + 1],
                   Boundary(UpperBottom(ow, lns[i]), LowerTop(ow, lns[i + 1])))

RECURSIVE FixPairs(_, _, _)
FixPairs(ow, lns, i) ==
    IF i > Len(lns) - 1 THEN ow ELSE FixPairs(FixPair(ow, lns, i), lns, i + 1)

\* _fix_vertical_overlaps(out_words, line_word_indices); return out_words
Fixed(st) == FixPairs(st.out_words, st.line_word_indices, 1)

\* What layout_words returns for the non-empty token list ws.
LayoutWordsOf(ws, P) == Fixed(TsTokens(TsStart(P), ws, 1, P))

(***************************************************************************)
(* The typesetter on its own, a step per token and per pair of lines.      *)
(***************************************************************************)
\* The inputs layout_words is called with.
WordWidths == {4}
WordHeights == {1, 8}
Tokens ==
    {NewlineToken, SizelessToken}
        \cup {WordToken(w, h) : w \in WordWidths, h \in WordHeights}
BlockBoxes == {<<2, 2, 22, 18>>, <<12, 10, 20, 18>>}
Paddings == {0, 1}
Leadings == {0, 6}
Spaces == {3}
BaseLineHs == {4}

\* The padded inner box of the block, in 1/SubPx pixels.
left == block_bbox[1] * SubPx + padding_px
top == block_bbox[2] * SubPx + padding_px
right == block_bbox[3] * SubPx - padding_px
bottom == block_bbox[4] * SubPx - padding_px

TsParams ==
    [left |-> left, top |-> top, leading_px |-> leading_px,
     space_px |-> space_px, base_line_h_px |-> base_line_h_px]

TsLocals ==
    [cursor_x |-> cursor_x, cursor_y |-> cursor_y, current_line_h |-> current_line_h,
     out_words |-> out_words, line_word_indices |-> line_word_indices]

SetTsLocals(st) ==
    /\ cursor_x' = st.cursor_x
    /\ cursor_y' = st.cursor_y
    /\ current_line_h' = st.current_line_h
    /\ out_words' = st.out_words
    /\ line_word_indices' = st.line_word_indices

\* The packer is not running.
PackerIdle ==
    /\ variant = "doc"
    /\ page_w = 0 /\ page_h = 0 /\ margin = 0 /\ gutter = 0 /\ v_gap = 0
    /\ scale_to_column = FALSE
    /\ style_map = [padding_pt |-> 0, profiles |-> <<>>]
    /\ heap = <<>> /\ data = 0 /\ input0 = <<>>
    /\ out = 0 /\ k = 0
    /\ y_col = <<0, 0>> /\ col_idx = 0
    /\ laid_blocks = <<>>
    /\ status = "idle"
    /\ ret = 0

\* The typesetter is not running on its own.
TypesetIdle ==
    /\ words = <<>>
    /\ block_bbox = <<0, 0, 0, 0>>
    /\ padding_px = 0 /\ leading_px = 0 /\ space_px = 0 /\ base_line_h_px = 0
    /\ cursor_x = 0 /\ cursor_y = 0 /\ current_line_h = 0
    /\ out_words = <<>>
    /\ line_word_indices = <<>>
    /\ w_i = 0 /\ f_i = 0
    /\ pc_t = "idle"

\* The estimator is not running.
SizerIdle ==
    /\ layout_json = 0
    /\ picture = <<>>
    /\ split_idx = 0
    /\ s_i = 0
    /\ lines = <<>>
    /\ out_blocks = <<>>
    /\ sized = 0
    /\ s_pc = "idle"

\* The pipeline is not running.
PipeIdle ==
    /\ run = 0
    /\ draws = <<>>
    /\ results = <<>>

\* No estimate is run on its own.
EstimateIdle ==
    /\ e_content = <<>>
    /\ e_max_width_px = 0
    /\ e_padding = 0
    /\ e_lines = <<>>
    /\ e_seg = 0
    /\ e_size = <<>>
    /\ e_words = <<>>
    /\ e_rewrap = <<>>
    /\ e_pc = "idle"

\* wrap_text_to_lines is not called on its own.
WrapIdle ==
    /\ wr_text = <<>>
    /\ wr_font = <<>>
    /\ wr_limit = 0
    /\ wr_lines = <<>>
    /\ wr_pc = "idle"

\* The components added later on are not running.
MainIdle ==
    /\ args = <<>>
    /\ task_q = <<>> /\ result_q = <<>>
    /\ workers = <<>>
    /\ put_n = 0 /\ done = 0
    /\ batch_dirs = <<>> /\ batch_bytes = 0 /\ batch_idx = 0
    /\ tar_log = <<>>
    /\ taken = <<>>
    /\ received = <<>>
    /\ m_pc = "idle"

ExtrasIdle == WrapIdle /\ both_first = <<>> /\ MainIdle

InitTypeset ==
    /\ PackerIdle
    /\ SizerIdle
    /\ PipeIdle
    /\ EstimateIdle
    /\ ExtrasIdle
    /\ \E n \in 0..MaxTokens : words \in [1..n -> Tokens]
    /\ block_bbox \in BlockBoxes
    /\ padding_px \in Paddings
    /\ leading_px \in Leadings
    /\ space_px \in Spaces
    /\ base_line_h_px \in BaseLineHs
    /\ cursor_x = left
    /\ cursor_y = top
    /\ current_line_h = base_line_h_px
    /\ out_words = <<>>
    /\ line_word_indices = << <<>> >>
    /\ w_i = 1
    /\ f_i = 0
    /\ pc_t = "words"

tparams == <<pvars, svars, rvars, evars, xvars, words, block_bbox, padding_px, leading_px,
             space_px, base_line_h_px>>

\* if not isinstance(words, list) or len(words) == 0: return None
TsNoWords ==
    /\ pc_t = "words"
    /\ Len(words) = 0
    /\ pc_t' = "none"
    /\ UNCHANGED <<tparams, cursor_x, cursor_y, current_line_h, out_words,
                   line_word_indices, w_i, f_i>>

\* The token is the newline marker.
TsNewline ==
    /\ pc_t = "words"
    /\ w_i <= Len(words)
    /\ HasKey(words[w_i], "bbox_size")
    /\ words[w_i].content = NL
    /\ SetTsLocals(TsToken(TsLocals, words[w_i], TsParams))
    /\ w_i' = w_i + 1
    /\ UNCHANGED <<tparams, f_i, pc_t>>

\* Any other token is placed at the cursor.
TsPlace ==
    /\ pc_t = "words"
    /\ w_i <= Len(words)
    /\ HasKey(words[w_i], "bbox_size")
    /\ words[w_i].content # NL
    /\ SetTsLocals(TsToken(TsLocals, words[w_i], TsParams))
    /\ w_i' = w_i + 1
    /\ UNCHANGED <<tparams, f_i, pc_t>>

\* bbox_size = w["bbox_size"] on a token without a size: KeyError leaves
\* layout_words, and generate_layout with it.
TsKeyError ==
    /\ pc_t = "words"
    /\ w_i <= Len(words)
    /\ ~HasKey(words[w_i], "bbox_size")
    /\ pc_t' = "key_error"
    /\ UNCHANGED <<tparams, cursor_x, cursor_y, current_line_h, out_words,
                   line_word_indices, w_i, f_i>>

\* The loop over the tokens is over: _fix_vertical_overlaps is called.
TsEndWords ==
    /\ pc_t = "words"
    /\ Len(words) > 0
    /\ w_i > Len(words)
    /\ pc_t' = "fix"
    /\ f_i' = 1
    /\ UNCHANGED <<tparams, cursor_x, cursor_y, current_line_h, out_words,
                   line_word_indices, w_i>>

InFix == pc_t = "fix" /\ f_i <= Len(line_word_indices) - 1
FixUpper == line_word_indices[f_i]
FixLower == line_word_indices[f_i + 1]

fixframe == <<tparams, cursor_x, cursor_y, current_line_h, line_word_indices, w_i>>

\* An empty logical line: the pair is skipped.
FixSkipEmpty ==
    /\ InFix
    /\ FixUpper = <<>> \/ FixLower = <<>>
    /\ out_words' = FixPair(out_words, line_word_indices, f_i)
    /\ f_i' = f_i + 1
    /\ UNCHANGED <<fixframe, pc_t>>

\* No overlap: the pair is left alone.
FixNoOverlap ==
    /\ InFix
    /\ FixUpper # <<>> /\ FixLower # <<>>
    /\ UpperBottom(out_words, FixUpper) <= LowerTop(out_words, FixLower)
    /\ out_words' = FixPair(out_words, line_word_indices, f_i)
    /\ f_i' = f_i + 1
    /\ UNCHANGED <<fixframe, pc_t>>

\* Overlap: both lines are clamped to the boundary.
FixClamp ==
    /\ InFix
    /\ FixUpper # <<>> /\ FixLower # <<>>
    /\ UpperBottom(out_words, FixUpper) > LowerTop(out_words, FixLower)
    /\ out_words' = FixPair(out_words, line_word_indices, f_i)
    /\ f_i' = f_i + 1
    /\ UNCHANGED <<fixframe, pc_t>>

\* return out_words
TsReturn ==
    /\ pc_t = "fix"
    /\ f_i > Len(line_word_indices) - 1
    /\ pc_t' = "done"
    /\ UNCHANGED <<fixframe, out_words, f_i>>

NextTypeset ==
    \/ TsNoWords
    \/ TsNewline
    \/ TsPlace
    \/ TsKeyError
    \/ TsEndWords
    \/ FixSkipEmpty
    \/ FixNoOverlap
    \/ FixClamp
    \/ TsReturn

SpecTypeset == InitTypeset /\ [][NextTypeset]_vars

(***************************************************************************)
(* generate_layout: the page packer.                                       *)
(* The inputs it is called with on its own: the page is a scaled-down A4   *)
(* sheet; the widths cover a columnar block, a full-width block inside the *)
(* margins and one wider than the page (and a degenerate, empty one); the  *)
(* heights cover two blocks that share a column, two that do not, and one  *)
(* taller than the column.  The style map has a profile for titles and     *)
(* paragraphs, none for figures.                                           *)
(***************************************************************************)
PageWs == {24}
PageHs == {20}
Margins == {2, 12}
Gutters == {2}
VGaps == {0, 1}
Widths == {0, 5, 12, 30}
Heights == {6, 10, 18}
Variants == {"doc", "pic"}
BlockKinds ==
    {<<"paragraph", <<w, h>> >> : w \in Widths, h \in Heights}
        \cup {<<"figure", <<5, 6>> >>}

SmallProfile == Profile("Font", 2, 4, 1, 4, 3, 5)
SmallStyle ==
    [padding_pt |-> 1,
     profiles |-> [t \in {"title", "paragraph"} |-> SmallProfile]]

(***************************************************************************)
(* Page geometry (both variants compute it the same way).                  *)
(***************************************************************************)
full_w == page_w - 2 * margin
usable_w == page_w - 2 * margin - gutter
col_w == usable_w \div 2
col_x(c) == IF c = 0 THEN margin ELSE margin + col_w + gutter
top_y == margin
\* A slip that forgets the bottom margin.
bottom_y_no_margin == page_h
bottom_y == page_h - margin
max_col_h == bottom_y - top_y

ConfigBad == full_w <= 0 \/ usable_w <= 0 \/ max_col_h <= 0

\* A slip that tests the top edge of the block only.
fits_top(y, h) == y <= bottom_y
fits(y, h) == (y + h) <= bottom_y

\* The pic variant's proportional down-scaling; the doc variant has none.
scale_to_width(w, h, width_limit) ==
    IF w <= width_limit THEN <<w, h>>
    ELSE IF ~scale_to_column THEN <<w, h>>
    ELSE <<width_limit, Max(1, RoundHalfEven(h * width_limit, w))>>

\* The size a block is placed with: [w, h] of the code after the width test.
PlacedSize(w0, h0) ==
    IF variant = "pic"
    THEN scale_to_width(w0, h0, IF w0 > col_w THEN full_w ELSE col_w)
    ELSE <<w0, h0>>

IsFullWidth(w0) == w0 > col_w

\* A slip that starts a full-width block at the higher of the two cursors.
FullWidthY_min(yc) == Min(yc[1], yc[2])
\* The y-origin of a full-width block.
FullWidthY(yc) == Max(yc[1], yc[2])

\* A slip that tries the other column before the current one.
ColumnFor_other_first(yc, ci, h) ==
    IF fits(yc[(1 - ci) + 1], h) THEN 1 - ci
    ELSE IF fits(yc[ci + 1], h) THEN ci
    ELSE -1

\* The column a columnar block of height h goes to: the current one if the
\* block fits at its cursor, else the other one if it fits there, else none (-1).
ColumnFor(yc, ci, h) ==
    IF fits(yc[ci + 1], h) THEN ci
    ELSE IF fits(yc[(1 - ci) + 1], h) THEN 1 - ci
    ELSE -1

\* A slip that moves only the first cursor below a full-width block.
CursorsAfterFull_one(yc, y2) == <<y2 + v_gap, yc[2]>>
\* The cursors after a block was placed with bottom edge y2.
CursorsAfterFull(yc, y2) == <<y2 + v_gap, y2 + v_gap>>
CursorsAfterColumn(yc, c, y2) == [yc EXCEPT ![c + 1] = y2 + v_gap]

\* A slip that collects the placed blocks newest first.
AppendLaid_front(laid, a) == <<a>> \o laid
\* laid_blocks.append(bb)
AppendLaid(laid, a) == Append(laid, a)

(***************************************************************************)
(* The state generate_layout is called in.                                 *)
(***************************************************************************)
InputHeaps ==
    UNION {
        { [i \in 1..(n + 1) |->
              IF i <= n THEN BlockObj(i, kinds[i][1], <<>>, kinds[i][2])
              ELSE DocObj([j \in 1..n |-> j])] :
          kinds \in [1..n -> BlockKinds] } :
        n \in 0..MaxBlocks }

Init ==
    /\ TypesetIdle
    /\ EstimateIdle
    /\ ExtrasIdle
    /\ SizerIdle
    /\ PipeIdle
    /\ variant \in Variants
    /\ page_w \in PageWs
    /\ page_h \in PageHs
    /\ margin \in Margins
    /\ gutter \in Gutters
    /\ v_gap \in VGaps
    /\ scale_to_column \in (IF variant = "pic" THEN BOOLEAN ELSE {FALSE})
    /\ style_map = SmallStyle
    /\ heap \in InputHeaps
    /\ data = Len(heap)
    /\ input0 = heap
    /\ out = 0
    /\ k = 0
    /\ y_col = <<0, 0>>
    /\ col_idx = 0
    /\ laid_blocks = <<>>
    /\ status = "start"
    /\ ret = 0

\* The block the loop is at, and its requested size.
CurBlock == heap[heap[out].blocks[k]]
InLoop == status = "loop" /\ k <= Len(heap[out].blocks)
CurW0 == CurBlock.bbox_size[1]
CurH0 == CurBlock.bbox_size[2]
CurSize == PlacedSize(CurW0, CurH0)
\* Both variants reject a block without bbox_size; the pic variant rejects
\* a non-positive bbox_size as well, before anything else.
BadSize ==
    IF ~HasKey(CurBlock, "bbox_size") THEN TRUE
    ELSE variant = "pic" /\ (CurW0 <= 0 \/ CurH0 <= 0)
\* bb["type"] and style_map[bb["type"]] of the doc variant raise KeyError for
\* a block without type and for a type without style.
NoStyle ==
    /\ variant = "doc"
    /\ IF ~HasKey(CurBlock, "type") THEN TRUE
       ELSE ~HasKey(style_map.profiles, CurBlock.type)

\* out = deepcopy(data); the pic variant records the page at once.
WorkingCopy(h, a) ==
    LET c == DeepCopyDoc(h, a)
    IN  IF variant = "pic"
        THEN [heap |-> [c.heap EXCEPT ![c.ref] = DSet(@, "page", <<page_w, page_h>>)],
              ref |-> c.ref]
        ELSE c

(***************************************************************************)
(* generate_layout, up to the loop: the working copy and the geometry.     *)
(***************************************************************************)
Enter ==
    /\ status = "start"
    /\ LET c == WorkingCopy(heap, data)
       IN  /\ heap' = c.heap
           /\ out' = c.ref
    /\ ~ConfigBad
    /\ y_col' = <<top_y, top_y>>
    /\ col_idx' = 0
    /\ laid_blocks' = <<>>
    /\ k' = 1
    /\ status' = "loop"
    /\ UNCHANGED <<params, ret>>

EnterConfigError ==
    /\ status = "start"
    /\ LET c == WorkingCopy(heap, data)
       IN  /\ heap' = c.heap
           /\ out' = c.ref
    /\ ConfigBad
    /\ status' = "config_error"
    /\ UNCHANGED <<params, ret, k, y_col, col_idx, laid_blocks>>

\* The lengths layout_words derives from the style for a block placed at bbox.
TsParamsOf(sm, type, bbox) ==
    [left |-> bbox[1] * SubPx + sm.padding_pt,
     top |-> bbox[2] * SubPx + sm.padding_pt,
     leading_px |-> sm.profiles[type].leading,
     space_px |-> sm.profiles[type].space_w,
     base_line_h_px |-> sm.profiles[type].line_h]

\* b.get("words"): the word records of block a, none if it has no words.
WordsOf(h, a) ==
    IF HasKey(h[a], "words") THEN [i \in 1..Len(h[a].words) |-> h[h[a].words[i]]]
    ELSE <<>>

\* bb["words"] = words_laid: the placed words are new records.
SetWords(h, a, laid) ==
    [h \o laid EXCEPT ![a] = DSet(@, "words", [i \in 1..Len(laid) |-> Len(h) + i])]

\* words_laid = layout_words(bb, ...);
\* if words_laid is not None: bb["words"] = words_laid
LaidOut(h, a, toks) ==
    IF toks = <<>> THEN h
    ELSE SetWords(h, a, LayoutWordsOf(toks, TsParamsOf(style_map, h[a].type, h[a].bbox)))

\* bb["font"] = style_map[bb["type"]]["font_name"], then the words.
Typeset(h, a) ==
    LaidOut([h EXCEPT ![a] = DSet(@, "font", style_map.profiles[h[a].type].font_name)],
            a, WordsOf(h, a))

\* bb = deepcopy(b); bb["bbox_size"] = [w, h]; bb["bbox"] = [x1, y1, x2, y2]
BoxedCopy(h, a, size, bbox) ==
    LET c == DeepCopyBlock(h, a)
    IN  [heap |-> [c.heap EXCEPT ![c.ref] = DSet(DSet(@, "bbox_size", size), "bbox", bbox)],
         ref |-> c.ref]

\* A slip that cuts a placed block off at the right margin.
PlacedCopy_clipped(h, a, size, x1, y1) ==
    LET c == BoxedCopy(h, a, size,
                       <<x1, y1, Min(x1 + size[1], page_w - margin), y1 + size[2]>>)
    IN  [heap |-> IF variant = "doc" THEN Typeset(c.heap, c.ref) ELSE c.heap,
         ref |-> c.ref]

\* The copy of block a placed at (x1, y1); the doc variant goes on to set
\* the font and to typeset the words.
PlacedCopy(h, a, size, x1, y1) ==
    LET c == BoxedCopy(h, a, size, <<x1, y1, x1 + size[1], y1 + size[2]>>)
    IN  [heap |-> IF variant = "doc" THEN Typeset(c.heap, c.ref) ELSE c.heap,
         ref |-> c.ref]

\* Whether the block the loop is at has no place left on the page.
NoRoom ==
    IF IsFullWidth(CurW0)
    THEN ~fits(FullWidthY(y_col), CurSize[2])
    ELSE ColumnFor(y_col, col_idx, CurSize[2]) = -1

PlaceFullWidth ==
    /\ InLoop
    /\ ~BadSize
    /\ IsFullWidth(CurW0)
    /\ CurSize[2] <= max_col_h
    /\ ~NoStyle
    /\ LET y1 == FullWidthY(y_col)
           p == PlacedCopy(heap, heap[out].blocks[k], CurSize, margin, y1)
       IN  /\ fits(y1, CurSize[2])
           /\ heap' = p.heap
           /\ laid_blocks' = AppendLaid(laid_blocks, p.ref)
           /\ y_col' = CursorsAfterFull(y_col, y1 + CurSize[2])
    /\ k' = k + 1
    /\ UNCHANGED <<params, out, col_idx, status, ret>>

PlaceColumnar ==
    /\ InLoop
    /\ ~BadSize
    /\ ~IsFullWidth(CurW0)
    /\ CurSize[2] <= max_col_h
    /\ ~NoStyle
    /\ LET c == ColumnFor(y_col, col_idx, CurSize[2])
       IN  /\ c # -1
           /\ LET y1 == y_col[c + 1]
                  p == PlacedCopy(heap, heap[out].blocks[k], CurSize, col_x(c), y1)
              IN  /\ heap' = p.heap
                  /\ laid_blocks' = AppendLaid(laid_blocks, p.ref)
                  /\ y_col' = CursorsAfterColumn(y_col, c, y1 + CurSize[2])
           /\ col_idx' = c
    /\ k' = k + 1
    /\ UNCHANGED <<params, out, status, ret>>

\* raise ValueError("... нет корректного bbox_size=[w,h]"), and in the pic
\* variant raise ValueError("... bbox_size должен быть > 0")
FailBadSize ==
    /\ InLoop
    /\ BadSize
    /\ status' = "malformed"
    /\ UNCHANGED <<params, heap, out, k, y_col, col_idx, laid_blocks, ret>>

\* raise ValueError("... слишком высокий ...")
FailTooTall ==
    /\ InLoop
    /\ ~BadSize
    /\ CurSize[2] > max_col_h
    /\ status' = "too_tall"
    /\ UNCHANGED <<params, heap, out, k, y_col, col_idx, laid_blocks, ret>>

\* A slip that drops a block that has no room and goes on with the next one.
FailNoFit_drop ==
    /\ InLoop
    /\ ~BadSize
    /\ CurSize[2] <= max_col_h
    /\ NoRoom
    /\ k' = k + 1
    /\ UNCHANGED <<params, heap, out, y_col, col_idx, laid_blocks, status, ret>>

\* raise ValueError("... не помещается на страницу ...")
FailNoFit ==
    /\ InLoop
    /\ ~BadSize
    /\ CurSize[2] <= max_col_h
    /\ NoRoom
    /\ status' = "no_fit"
    /\ UNCHANGED <<params, heap, out, k, y_col, col_idx, laid_blocks, ret>>

\* The doc variant finds no style for the block's type: KeyError, raised
\* after the block was copied and given its bbox.
FailNoStyle ==
    /\ InLoop
    /\ ~BadSize
    /\ CurSize[2] <= max_col_h
    /\ ~NoRoom
    /\ NoStyle
    /\ LET c == IF IsFullWidth(CurW0) THEN col_idx
                ELSE ColumnFor(y_col, col_idx, CurSize[2])
           x1 == IF IsFullWidth(CurW0) THEN margin ELSE col_x(c)
           y1 == IF IsFullWidth(CurW0) THEN FullWidthY(y_col) ELSE y_col[c + 1]
       IN  /\ heap' = BoxedCopy(heap, heap[out].blocks[k], CurSize,
                                <<x1, y1, x1 + CurSize[1], y1 + CurSize[2]>>).heap
           /\ col_idx' = c
    /\ status' = "key_error"
    /\ UNCHANGED <<params, out, k, y_col, laid_blocks, ret>>

\* The page the doc variant records: the extent used plus the margin.
ClipPage(h, laid) ==
    <<Max(0, MaxOver({h[laid[i]].bbox[3] : i \in 1..Len(laid)})) + margin,
      Max(0, MaxOver({h[laid[i]].bbox[4] : i \in 1..Len(laid)})) + margin>>

\* out["blocks"] = laid_blocks; (doc: out["page"] = ...); return out
Finish ==
    /\ status = "loop"
    /\ k > Len(heap[out].blocks)
    /\ heap' = IF variant = "doc"
               THEN [heap EXCEPT ![out] =
                        DSet(DSet(@, "blocks", laid_blocks),
                             "page", ClipPage(heap, laid_blocks))]
               ELSE [heap EXCEPT ![out] = DSet(@, "blocks", laid_blocks)]
    /\ status' = "ok"
    /\ ret' = out
    /\ UNCHANGED <<params, out, k, y_col, col_idx, laid_blocks>>

Next ==
    \/ Enter
    \/ EnterConfigError
    \/ PlaceFullWidth
    \/ PlaceColumnar
    \/ FailBadSize
    \/ FailTooTall
    \/ FailNoFit
    \/ FailNoStyle
    \/ Finish

Spec == Init /\ [][Next]_vars

(***************************************************************************)
(* generate_layout over the page configurations and the block records it   *)
(* rejects: margins and gutters that leave no page, no column or a column  *)
(* one pixel wide or less, records without bbox_size or without type, and *)
(* a record with a negative height.                                        *)
(***************************************************************************)
\* The longest block list of these calls.
MaxConfigBlocks == 2

\* <<margin, gutter>> on the page of PageWs by PageHs.
ConfigGeometries ==
    {<<2, 2>>, <<2, 19>>, <<2, 20>>, <<10, 2>>, <<12, 2>>}

\* The block records, before their id.
ConfigKinds ==
    {[type |-> "paragraph", content |-> <<>>, bbox_size |-> <<5, 6>>],
     [type |-> "paragraph", content |-> <<>>, bbox_size |-> <<12, 10>>],
     [type |-> "paragraph", content |-> <<>>, bbox_size |-> <<5, 18>>],
     [type |-> "figure", content |-> <<>>, bbox_size |-> <<5, 6>>],
     [type |-> "paragraph", content |-> <<>>, bbox_size |-> <<5, -3>>],
     [type |-> "paragraph", content |-> <<>>],
     [content |-> <<>>, bbox_size |-> <<5, 6>>]}

ConfigHeaps ==
    UNION {
        { [i \in 1..(n + 1) |->
              IF i <= n THEN DSet(kinds[i], "id", i)
              ELSE DocObj([j \in 1..n |-> j])] :
          kinds \in [1..n -> ConfigKinds] } :
        n \in 0..MaxConfigBlocks }

InitConfig ==
    /\ TypesetIdle
    /\ EstimateIdle
    /\ ExtrasIdle
    /\ SizerIdle
    /\ PipeIdle
    /\ variant \in Variants
    /\ page_w \in PageWs
    /\ page_h \in PageHs
    /\ \E g \in ConfigGeometries : margin = g[1] /\ gutter = g[2]
    /\ v_gap \in VGaps
    /\ scale_to_column \in (IF variant = "pic" THEN BOOLEAN ELSE {FALSE})
    /\ style_map = SmallStyle
    /\ heap \in ConfigHeaps
    /\ data = Len(heap)
    /\ input0 = heap
    /\ out = 0
    /\ k = 0
    /\ y_col = <<0, 0>>
    /\ col_idx = 0
    /\ laid_blocks = <<>>
    /\ status = "start"
    /\ ret = 0

SpecConfig == InitConfig /\ [][Next]_vars

(***************************************************************************)
(* What the caller gets when a call does not return: the class of the      *)
(* exception raised where the call stopped.                                *)
(***************************************************************************)
ConfigErrors == {"config_error"}
OverflowErrors == {"too_tall", "no_fit"}
MalformedErrors == {"malformed"}
Failures == ConfigErrors \cup OverflowErrors \cup MalformedErrors \cup {"key_error"}

ErrorClass(st) == IF st = "key_error" THEN "KeyError" ELSE "ValueError"
(***************************************************************************)
(* The two variants of generate_layout called one after the other with the *)
(* same document and the same page geometry: first the doc variant, then   *)
(* the pic variant.  How the first call ended is kept for the comparison.  *)
(***************************************************************************)
\* How a call ended: whether it returned, the index of the block it was at
\* when it raised (0: before the loop), and the bboxes of the blocks placed.
CallEnded == status \notin {"idle", "start", "loop"}
CallOutcome ==
    [ok |-> status = "ok",
     at |-> IF status = "ok" THEN 0 ELSE k,
     boxes |-> IF status = "ok"
               THEN [i \in 1..Len(laid_blocks) |-> heap[laid_blocks[i]].bbox]
               ELSE <<>>]

InitBoth ==
    /\ TypesetIdle
    /\ EstimateIdle
    /\ ExtrasIdle
    /\ SizerIdle
    /\ PipeIdle
    /\ variant = "doc"
    /\ page_w \in PageWs
    /\ page_h \in PageHs
    /\ margin \in Margins
    /\ gutter \in Gutters
    /\ v_gap \in VGaps
    /\ scale_to_column \in BOOLEAN
    /\ style_map = SmallStyle
    /\ heap \in InputHeaps
    /\ data = Len(heap)
    /\ input0 = heap
    /\ out = 0
    /\ k = 0
    /\ y_col = <<0, 0>>
    /\ col_idx = 0
    /\ laid_blocks = <<>>
    /\ status = "start"
    /\ ret = 0

\* The doc variant is over: the pic variant is called with the same document.
CallPic ==
    /\ variant = "doc"
    /\ CallEnded
    /\ both_first' = CallOutcome
    /\ variant' = "pic"
    /\ heap' = input0
    /\ out' = 0
    /\ k' = 0
    /\ y_col' = <<0, 0>>
    /\ col_idx' = 0
    /\ laid_blocks' = <<>>
    /\ status' = "start"
    /\ ret' = 0
    /\ UNCHANGED <<page_w, page_h, margin, gutter, v_gap, scale_to_column, style_map,
                   data, input0, tvars, svars, rvars, evars, wvars, mvars>>

NextBoth == Next \/ CallPic

SpecBoth == InitBoth /\ [][NextBoth]_vars

(***************************************************************************)
(* generate_json_with_sizes: the size estimator.                           *)
(***************************************************************************)
\* The two width limits a block is measured against.
WideMaxWidth == 2080
NarrowMaxWidth == 1040

\* A slip that keeps the lines of the previous call.
FreshLines_kept == lines
\* lines = [] before the loop.
FreshLines == <<>>

\* dict(b): a new record with the same keys and values.
DictCopy(h, a) == [heap |-> Append(h, h[a]), ref |-> Len(h) + 1]

\* The profile of a block type; a type without one gets the paragraph's.
StyleFor(sm, type) ==
    IF HasKey(sm.profiles, type) THEN sm.profiles[type] ELSE sm.profiles["paragraph"]

\* The width limit of the block at (0-based) index i that is not a title.
MaxWidthBySplit(i, split) == IF i < split THEN WideMaxWidth ELSE NarrowMaxWidth

\* if lines != []: b2["lines"] = lines
WithLines(b2, lns) == IF lns # <<>> THEN DSet(b2, "lines", lns) ELSE b2

\* [int(ww), int(wh)] of a (ww, wh) measured for a token.
IntSize(sz) == <<sz[1] \div SubPx, sz[2]>>

\* out_wd: the token with its bbox_size.
SizedToken(tok, f) ==
    DSet(tok, "bbox_size",
         IF tok.content = NL THEN <<0, 0>>
         ELSE IntSize(measure_bbox_size_for_one_word(tok.content, f)))

\* words_out: the tokens of the wrapped lines, each with its bbox_size.
WordsOut(toks, f) == [i \in 1..Len(toks) |-> SizedToken(toks[i], f)]

\* b2 for a text block measured as m, with its words wo: the words and the
\* block are new records.
TextRecord(h, a, m, wo) ==
    [heap |-> Append(h \o wo,
                     WithLines(DSet(DSet(h[a], "bbox_size", <<m.w, m.h>>),
                                    "words", [i \in 1..Len(wo) |-> Len(h) + i]),
                               m.lines)),
     ref |-> Len(h) + Len(wo) + 1,
     lines |-> m.lines]

Measured(h, a, m, f) ==
    TextRecord(h, a, m, WordsOut(split_lines_to_tokens(m.lines, 1), f))

\* The heap after a text block was measured against max_width_px, and what
\* the block's record and wrapped lines are.
SizedText(h, a, max_width_px) ==
    Measured(h, a,
             measure_bbox_size_for_block(h[a].content, max_width_px,
                                         StyleFor(style_map, h[a].type),
                                         style_map.padding_pt),
             StyleFor(style_map, h[a].type))

\* The same for a figure: the image is scaled to the width limit.
SizedFigure(h, a, max_width_px, lns) ==
    LET c == DictCopy(h, a)
        b2 == DSet(c.heap[c.ref], "bbox_size",
                   <<max_width_px,
                     Max(1, RoundHalfEven(picture[2] * max_width_px, picture[1]))>>)
    IN  [heap |-> [c.heap EXCEPT ![c.ref] = WithLines(b2, lns)], ref |-> c.ref]

SizerBlocks == heap[layout_json].blocks
SizerBlock == heap[SizerBlocks[s_i]]
InSizerLoop == s_pc = "loop" /\ s_i <= Len(SizerBlocks)

\* What no step of the estimator changes.
sparams == <<variant, page_w, page_h, margin, gutter, v_gap, scale_to_column,
             style_map, data, input0, out, k, y_col, col_idx, laid_blocks, status,
             ret, tvars, evars, xvars, layout_json, picture, run, results>>

\* Record a value drawn from the random module.
Drawn(v) == draws' = [draws EXCEPT ![run] = Append(@, v)]

\* Up to the loop; the split boundary is drawn when there are two blocks or more.
SizeStart ==
    /\ s_pc = "start"
    /\ Len(SizerBlocks) <= 1
    /\ split_idx' = Len(SizerBlocks)
    /\ s_i' = 1
    /\ lines' = FreshLines
    /\ out_blocks' = <<>>
    /\ s_pc' = "loop"
    /\ UNCHANGED <<sparams, heap, sized, draws>>

SizeStartSplit ==
    /\ s_pc = "start"
    /\ Len(SizerBlocks) > 1
    /\ \E s \in 0..Len(SizerBlocks) :
          /\ split_idx' = s
          /\ Drawn(s)
    /\ s_i' = 1
    /\ lines' = FreshLines
    /\ out_blocks' = <<>>
    /\ s_pc' = "loop"
    /\ UNCHANGED <<sparams, heap, sized>>

\* A title: its width limit is drawn.
SizeTitle ==
    /\ InSizerLoop
    /\ SizerBlock.type = "title"
    /\ \E mw \in {WideMaxWidth, NarrowMaxWidth} :
          /\ \E r \in {SizedText(heap, SizerBlocks[s_i], mw)} :
                /\ heap' = r.heap
                /\ out_blocks' = Append(out_blocks, r.ref)
                /\ lines' = r.lines
          /\ Drawn(mw)
    /\ s_i' = s_i + 1
    /\ UNCHANGED <<sparams, split_idx, sized, s_pc>>

\* Any other text block: its width limit follows from the split boundary.
SizeText ==
    /\ InSizerLoop
    /\ SizerBlock.type \notin {"title", "figure"}
    /\ \E r \in {SizedText(heap, SizerBlocks[s_i],
                             MaxWidthBySplit(s_i - 1, split_idx))} :
          /\ heap' = r.heap
          /\ out_blocks' = Append(out_blocks, r.ref)
          /\ lines' = r.lines
    /\ s_i' = s_i + 1
    /\ UNCHANGED <<sparams, split_idx, sized, s_pc, draws>>

SizeFigure ==
    /\ InSizerLoop
    /\ SizerBlock.type = "figure"
    /\ picture # <<>>
    /\ LET r == SizedFigure(heap, SizerBlocks[s_i],
                            MaxWidthBySplit(s_i - 1, split_idx), lines)
       IN  /\ heap' = r.heap
           /\ out_blocks' = Append(out_blocks, r.ref)
    /\ s_i' = s_i + 1
    /\ UNCHANGED <<sparams, split_idx, lines, sized, s_pc, draws>>

\* raise ValueError("picture_path must be provided ...")
SizeFigureNoPicture ==
    /\ InSizerLoop
    /\ SizerBlock.type = "figure"
    /\ picture = <<>>
    /\ s_pc' = "no_picture"
    /\ UNCHANGED <<sparams, heap, split_idx, s_i, lines, out_blocks, sized, draws>>

\* return {"blocks": out_blocks}
SizeReturn ==
    /\ s_pc = "loop"
    /\ s_i > Len(SizerBlocks)
    /\ heap' = Append(heap, DocObj(out_blocks))
    /\ sized' = Len(heap) + 1
    /\ s_pc' = "done"
    /\ UNCHANGED <<sparams, split_idx, s_i, lines, out_blocks, draws>>

(***************************************************************************)
(* The document pipeline: generate_json_with_sizes, then generate_layout   *)
(* (the doc variant, with its default page) on the estimator's result.     *)
(* The pipeline is run twice on the same input document.                   *)
(***************************************************************************)
DefaultPageW == 2480
DefaultPageH == 3508
DefaultMargin == 120
DefaultGutter == 40
DefaultVGap == 24

\* The typography of the pipeline: a profile for titles and for paragraphs.
ParagraphProfile == Profile("Body", 602, 903, 300, 200, 161, 3200)
TitleProfile == Profile("Head", 701, 1051, 350, 240, 201, 3300)
PipeStyle ==
    [padding_pt |-> 9,
     profiles |-> [t \in {"title", "paragraph"} |->
                      IF t = "title" THEN TitleProfile ELSE ParagraphProfile]]

\* The blocks the pipeline is given: a type and a content.
Txt_a == <<"a">>
Txt_aa_aa == <<"a", "a", " ", "a", "a">>
Txt_aa_aa_aa == <<"a", "a", " ", "a", "a", " ", "a", "a">>
Txt_aaaa == <<"a", "a", "a", "a">>
PipeKinds ==
    {<<"title", Txt_aaaa>>, <<"paragraph", Txt_a>>, <<"paragraph", Txt_aa_aa>>,
     <<"paragraph", Txt_aa_aa_aa>>, <<"header", Txt_a>>, <<"figure", <<>> >>}
Pictures == {<<>>, <<640, 481>>}

PipeHeaps ==
    UNION {
        { [i \in 1..(n + 1) |->
              IF i <= n
              THEN [id |-> i, type |-> kinds[i][1], content |-> kinds[i][2]]
              ELSE DocObj([j \in 1..n |-> j])] :
          kinds \in [1..n -> PipeKinds] } :
        n \in 0..MaxPipeBlocks }

\* The packer's locals before it is called.
PackerAtRest ==
    /\ data = 0
    /\ out = 0 /\ k = 0
    /\ y_col = <<0, 0>> /\ col_idx = 0
    /\ laid_blocks = <<>>
    /\ status = "idle"
    /\ ret = 0

InitPipe ==
    /\ TypesetIdle
    /\ EstimateIdle
    /\ ExtrasIdle
    /\ variant = "doc"
    /\ page_w = DefaultPageW
    /\ page_h = DefaultPageH
    /\ margin = DefaultMargin
    /\ gutter = DefaultGutter
    /\ v_gap = DefaultVGap
    /\ scale_to_column = FALSE
    /\ style_map = PipeStyle
    /\ heap \in PipeHeaps
    /\ input0 = heap
    /\ PackerAtRest
    /\ layout_json = Len(heap)
    /\ picture \in Pictures
    /\ split_idx = 0
    /\ s_i = 0
    /\ lines = <<>>
    /\ out_blocks = <<>>
    /\ sized = 0
    /\ s_pc = "start"
    /\ run = 1
    /\ draws = << <<>>, <<>> >>
    /\ results = <<>>

\* final_layout = generate_layout(data=json_with_bbox_sizes, style_map=style_map)
CallLayout ==
    /\ s_pc = "done"
    /\ status = "idle"
    /\ data' = sized
    /\ input0' = heap
    /\ status' = "start"
    /\ UNCHANGED <<variant, page_w, page_h, margin, gutter, v_gap, scale_to_column,
                   style_map, heap, out, k, y_col, col_idx, laid_blocks, ret,
                   tvars, svars, rvars, evars, xvars>>

\* The value of a record with the records it refers to.
BlockValue(h, a) ==
    IF HasKey(h[a], "words")
    THEN DSet(h[a], "words", [i \in 1..Len(h[a].words) |-> h[h[a].words[i]]])
    ELSE h[a]

DocValue(h, a) ==
    IF a = 0 THEN <<>>
    ELSE DSet(h[a], "blocks", [i \in 1..Len(h[a].blocks) |-> BlockValue(h, h[a].blocks[i])])

\* The run is over: the pipeline returned or raised.
RunOver ==
    \/ s_pc \notin {"idle", "start", "loop", "done"}
    \/ status \notin {"idle", "start", "loop"}

\* What a run yields: how either stage ended and the documents they returned.
Outcome ==
    [sizes |-> s_pc, json_with_bbox_sizes |-> DocValue(heap, sized),
     layout |-> status, final_layout |-> DocValue(heap, ret)]

\* The end of a run; after the first one the pipeline is called once more on
\* the same document.
EndRun ==
    /\ run \in {1, 2}
    /\ RunOver
    /\ results' = Append(results, Outcome)
    /\ run' = run + 1
    /\ s_pc' = IF run = 1 THEN "start" ELSE "idle"
    /\ sized' = 0
    /\ split_idx' = 0 /\ s_i' = 0 /\ out_blocks' = <<>>
    /\ input0' = heap
    /\ data' = 0
    /\ out' = 0 /\ k' = 0
    /\ y_col' = <<0, 0>> /\ col_idx' = 0
    /\ laid_blocks' = <<>>
    /\ status' = "idle"
    /\ ret' = 0
    /\ UNCHANGED <<variant, page_w, page_h, margin, gutter, v_gap, scale_to_column,
                   style_map, heap, tvars, evars, xvars, layout_json, picture, lines, draws>>

NextPipe ==
    \/ SizeStart
    \/ SizeStartSplit
    \/ SizeTitle
    \/ SizeText
    \/ SizeFigure
    \/ SizeFigureNoPicture
    \/ SizeReturn
    \/ CallLayout
    \/ Enter
    \/ PlaceFullWidth
    \/ PlaceColumnar
    \/ FailTooTall
    \/ FailNoFit
    \/ FailNoStyle
    \/ Finish
    \/ EndRun

SpecPipe == InitPipe /\ [][NextPipe]_vars

(***************************************************************************)
(* One estimate of a text block, as generate_json_with_sizes makes it:     *)
(* measure_bbox_size_for_block wraps the content (a step per segment       *)
(* between explicit line breaks) and measures the lines, and               *)
(* split_lines_to_tokens makes the tokens of the lines.  After that every  *)
(* returned line is wrapped once more, alone, against its own width.       *)
(***************************************************************************)
\* The longest content.
MaxTextLen == 4

EstChars == {"a", "W", " ", "\t", "\n"}
EstContents == UNION {[1..n -> EstChars] : n \in 0..MaxTextLen}
EstWidths == {1, 2, 3, 5}
EstPaddings == {0, 1}
EstFont == SmallProfile

\* max_text_width_px = max_width_px - 2 * padding_px
EstTextWidth == e_max_width_px - 2 * CeilDiv(e_padding, SubPx)
\* text.split("\n")
EstSegments == Split(e_content, "\n")

InitEstimate ==
    /\ PackerIdle
    /\ TypesetIdle
    /\ SizerIdle
    /\ PipeIdle
    /\ ExtrasIdle
    /\ e_content \in EstContents
    /\ e_max_width_px \in EstWidths
    /\ e_padding \in EstPaddings
    /\ e_lines = <<>>
    /\ e_seg = 1
    /\ e_size = <<>>
    /\ e_words = <<>>
    /\ e_rewrap = <<>>
    /\ e_pc = "wrap"

eparams == <<pvars, tvars, svars, rvars, xvars, e_content, e_max_width_px, e_padding>>

\* lines.extend(wrap_one_line(raw))
EstWrapSegment ==
    /\ e_pc = "wrap"
    /\ e_seg <= Len(EstSegments)
    /\ e_lines' = e_lines \o wrap_one_line(EstSegments[e_seg], EstTextWidth * SubPx, EstFont)
    /\ e_seg' = e_seg + 1
    /\ UNCHANGED <<eparams, e_size, e_words, e_rewrap, e_pc>>

\* wrap_text_to_lines: return lines
EstWrapReturn ==
    /\ e_pc = "wrap"
    /\ e_seg > Len(EstSegments)
    /\ e_pc' = "measure"
    /\ UNCHANGED <<eparams, e_lines, e_seg, e_size, e_words, e_rewrap>>

\* measure_bbox_size_for_block, after the wrap: return w, h, lines
EstMeasure ==
    /\ e_pc = "measure"
    /\ e_size' = BlockSize(NonEmptyLines(e_lines), e_max_width_px, EstFont, e_padding)
    /\ e_pc' = "tokens"
    /\ UNCHANGED <<eparams, e_lines, e_seg, e_words, e_rewrap>>

\* words_in = split_lines_to_tokens(lines)
EstTokens ==
    /\ e_pc = "tokens"
    /\ e_words' = split_lines_to_tokens(e_size.lines, 1)
    /\ e_seg' = 1
    /\ e_pc' = "rewrap"
    /\ UNCHANGED <<eparams, e_lines, e_size, e_rewrap>>

\* wrap_text_to_lines of one returned line, the limit its own width.
EstRewrap ==
    /\ e_pc = "rewrap"
    /\ e_seg <= Len(e_lines)
    /\ e_rewrap' = Append(e_rewrap,
                          WrapSegments(Split(e_lines[e_seg], "\n"), 1,
                                       string_width_px(e_lines[e_seg], EstFont), EstFont))
    /\ e_seg' = e_seg + 1
    /\ UNCHANGED <<eparams, e_lines, e_size, e_words, e_pc>>

EstDone ==
    /\ e_pc = "rewrap"
    /\ e_seg > Len(e_lines)
    /\ e_pc' = "done"
    /\ UNCHANGED <<eparams, e_lines, e_seg, e_size, e_words, e_rewrap>>

NextEstimate ==
    \/ EstWrapSegment
    \/ EstWrapReturn
    \/ EstMeasure
    \/ EstTokens
    \/ EstRewrap
    \/ EstDone

SpecEstimate == InitEstimate /\ [][NextEstimate]_vars
(***************************************************************************)
(* wrap_text_to_lines called on its own, with limits down to below zero    *)
(* and with a font whose glyphs are narrower than a pixel.                 *)
(***************************************************************************)
\* A font set so small that two glyphs fit into one pixel.
FineProfile == Profile("Fine", 1, 2, 1, 4, 3, 5)

WrapChars == {"a", "W", " ", "\n"}
WrapTexts == UNION {[1..n -> WrapChars] : n \in 0..MaxTextLen}
WrapFonts == {SmallProfile, FineProfile}
WrapLimits == {-1, 0, 1, 2}

InitWrap ==
    /\ PackerIdle
    /\ TypesetIdle
    /\ SizerIdle
    /\ PipeIdle
    /\ EstimateIdle
    /\ both_first = <<>>
    /\ MainIdle
    /\ wr_text \in WrapTexts
    /\ wr_font \in WrapFonts
    /\ wr_limit \in WrapLimits
    /\ wr_lines = <<>>
    /\ wr_pc = "call"

\* lines = wrap_text_to_lines(text, max_text_width_px, font_name, font_size_pt, dpi)
WrapCall ==
    /\ wr_pc = "call"
    /\ wr_lines' = wrap_text_to_lines(wr_text, wr_limit, wr_font)
    /\ wr_pc' = "done"
    /\ UNCHANGED <<pvars, tvars, svars, rvars, evars, both_first, mvars, wr_text, wr_font,
                   wr_limit>>

NextWrap == WrapCall

SpecWrap == InitWrap /\ [][NextWrap]_vars

(***************************************************************************)
(* The multi-process run of main.py.  main starts the worker processes,    *)
(* puts the tasks and then one stop sentinel per worker on task_q, and     *)
(* collects one message per task from result_q, archiving the sample       *)
(* directories in batches.  A worker (_worker_loop) takes tasks until it   *)
(* takes a sentinel; a pic or a table task may call its pipeline a second  *)
(* time.  What a pipeline, the sandbox service or the upload do is an      *)
(* input of the step that calls them.                                      *)
(***************************************************************************)
\* The largest n_samples.
MaxSamples == 2
NumGpus == {1, 2}
Pipelines == {"doc", "pic", "table"}
\* int(args.batch_gb * 1024 * 1024 * 1024) and the sizes of a sample directory.
TargetBytes == {2}
DirSizes == {1, 2}

\* The stop sentinel on task_q.
None == <<>>
GenTask(i) == [idx |-> i, pipeline |-> args.pipeline]

\* What the lower-cased message of an exception may contain.
Messages ==
    {{}, {"executionerror"}, {"rate limit"}, {"not found"}, {"timeout"},
     {"executionerror", "timeout"}, {"rate limit", "not found"}}
is_rate_limit(low) == "rate limit" \in low
is_not_found(low) == "not found" \in low
is_timeoutish(low) == "timeout" \in low

\* A worker before its first task.
FreshWorker ==
    [pc |-> "get", task |-> None, calls |-> 0, err |-> {}, recreated |-> FALSE,
     sbx |-> FALSE, stops |-> 0]

InitMain ==
    /\ PackerIdle
    /\ TypesetIdle
    /\ SizerIdle
    /\ PipeIdle
    /\ EstimateIdle
    /\ WrapIdle
    /\ both_first = <<>>
    /\ \E p \in Pipelines, n \in 0..MaxSamples, g \in NumGpus, b \in BOOLEAN,
          t \in TargetBytes :
        /\ args = [pipeline |-> p, n_samples |-> n, num_gpus |-> g, s3_bucket |-> b,
                   target_bytes |-> t]
        /\ workers = [w \in 1..g |-> FreshWorker]
        /\ taken = [i \in 1..n |-> 0]
    /\ task_q = <<>>
    /\ result_q = <<>>
    /\ put_n = 0
    /\ done = 0
    /\ batch_dirs = <<>>
    /\ batch_bytes = 0
    /\ batch_idx = 0
    /\ tar_log = <<>>
    /\ received = <<>>
    /\ m_pc = "enqueue"

others == <<pvars, tvars, svars, rvars, evars, wvars, both_first>>
collector == <<put_n, done, batch_dirs, batch_bytes, batch_idx, tar_log, received, m_pc>>

\* The two messages a worker puts on result_q; out_dir is named by the task.
\* main measures the directory again, so size_bytes is left out.
OkResult(task) == [ok |-> TRUE, idx |-> task.idx, out_dir |-> task.idx]
FailResult(task) == [ok |-> FALSE, idx |-> task.idx]

\* The worker is back at task_q.get: the locals of the loop body are gone.
AtGet(wk) == [wk EXCEPT !.pc = "get", !.task = None, !.calls = 0, !.err = {}, !.recreated = FALSE]

\* task_q.put(GenTask(idx=i, pipeline=args.pipeline, seed=seed))
MainPutTask ==
    /\ m_pc = "enqueue"
    /\ put_n < args.n_samples
    /\ task_q' = Append(task_q, GenTask(put_n))
    /\ put_n' = put_n + 1
    /\ UNCHANGED <<others, args, result_q, workers, done, batch_dirs, batch_bytes,
                   batch_idx, tar_log, taken, received, m_pc>>

\* task_q.put(None), once per worker
MainPutStop ==
    /\ m_pc = "enqueue"
    /\ put_n >= args.n_samples
    /\ task_q' = Append(task_q, None)
    /\ put_n' = put_n + 1
    /\ m_pc' = IF put_n + 1 = args.n_samples + args.num_gpus THEN "collect" ELSE "enqueue"
    /\ UNCHANGED <<others, args, result_q, workers, done, batch_dirs, batch_bytes,
                   batch_idx, tar_log, taken, received>>

\* task = task_q.get(timeout=1.0), a task
WorkerGetTask(w) ==
    /\ workers[w].pc = "get"
    /\ task_q # <<>>
    /\ Head(task_q) # None
    /\ task_q' = Tail(task_q)
    /\ taken' = [taken EXCEPT ![Head(task_q).idx + 1] = @ + 1]
    /\ workers' = [workers EXCEPT ![w] =
                      [@ EXCEPT !.pc = IF Head(task_q).pipeline = "doc" THEN "call"
                                       ELSE "ensure",
                                !.task = Head(task_q)]]
    /\ UNCHANGED <<others, args, result_q, collector>>

\* task = task_q.get(timeout=1.0), the sentinel: _close_sbx(); return
WorkerStop(w) ==
    /\ workers[w].pc = "get"
    /\ task_q # <<>>
    /\ Head(task_q) = None
    /\ task_q' = Tail(task_q)
    /\ workers' = [workers EXCEPT ![w] =
                      [@ EXCEPT !.pc = "exited", !.sbx = FALSE, !.stops = @ + 1]]
    /\ UNCHANGED <<others, args, result_q, taken, collector>>

\* _ensure_sbx() before the pipeline: a live sandbox is kept or, when there
\* is none or it is old, one is created; a creation that fails raises.
WorkerEnsure(w) ==
    /\ workers[w].pc = "ensure"
    /\ \E outcome \in {"kept", "created", "failed"} :
        /\ outcome = "kept" => workers[w].sbx
        /\ workers' = [workers EXCEPT ![w] =
                          IF outcome = "failed"
                          THEN AtGet([@ EXCEPT !.sbx = FALSE])
                          ELSE [@ EXCEPT !.pc = "call", !.sbx = TRUE]]
        /\ result_q' = IF outcome = "failed"
                       THEN Append(result_q, FailResult(workers[w].task))
                       ELSE result_q
    /\ UNCHANGED <<others, args, task_q, taken, collector>>

\* A slip that retries after an 'executionerror' too.
Retried_any(pipeline, low) ==
    pipeline # "doc" /\ (is_rate_limit(low) \/ is_not_found(low) \/ is_timeoutish(low))
\* The except clause around the first call: is a second call made?
Retried(pipeline, low) ==
    /\ pipeline # "doc"
    /\ "executionerror" \notin low
    /\ (is_rate_limit(low) \/ is_not_found(low) \/ is_timeoutish(low))

\* The branch that recreates the sandbox before the second call.
Recreates(low) == ~is_rate_limit(low) /\ is_not_found(low)

\* The first call of the pipeline and what follows it: the result message,
\* or the except clause up to the second call.
WorkerCall(w) ==
    /\ workers[w].pc = "call"
    /\ \E raised \in BOOLEAN, low \in Messages, created \in BOOLEAN :
        LET wk == [workers[w] EXCEPT !.calls = 1]
        IN  IF ~raised
            THEN /\ workers' = [workers EXCEPT ![w] = AtGet(wk)]
                 /\ result_q' = Append(result_q, OkResult(wk.task))
            ELSE IF ~Retried(wk.task.pipeline, low)
            THEN /\ workers' = [workers EXCEPT ![w] = AtGet(wk)]
                 /\ result_q' = Append(result_q, FailResult(wk.task))
            ELSE IF ~Recreates(low)
            THEN /\ workers' = [workers EXCEPT ![w] = [wk EXCEPT !.err = low, !.pc = "retry"]]
                 /\ result_q' = result_q
            ELSE IF created
            THEN /\ workers' = [workers EXCEPT ![w] =
                                   [wk EXCEPT !.err = low, !.pc = "retry", !.sbx = TRUE,
                                              !.recreated = TRUE]]
                 /\ result_q' = result_q
            ELSE /\ workers' = [workers EXCEPT ![w] =
                                   AtGet([wk EXCEPT !.sbx = FALSE])]
                 /\ result_q' = Append(result_q, FailResult(wk.task))
    /\ UNCHANGED <<others, args, task_q, taken, collector>>

\* A slip that lets the exception of the second call escape the loop body.
RetryMessages_lost(task, raised) ==
    IF raised THEN <<>> ELSE <<OkResult(task)>>
\* What the loop body puts on result_q after the second call.
RetryMessages(task, raised) ==
    IF raised THEN <<FailResult(task)>> ELSE <<OkResult(task)>>

\* The second call of the pipeline and the result message.
WorkerRetry(w) ==
    /\ workers[w].pc = "retry"
    /\ \E raised \in BOOLEAN :
        /\ workers' = [workers EXCEPT ![w] = AtGet(@)]
        /\ result_q' = result_q \o RetryMessages(workers[w].task, raised)
    /\ UNCHANGED <<others, args, task_q, taken, collector>>

\* flush_batch: the batch state after it, uploaded telling whether the
\* upload (were there one) succeeds.
FlushBatch(dirs, bytes, idx, log, uploaded) ==
    IF dirs = <<>> THEN [dirs |-> dirs, bytes |-> bytes, idx |-> idx, log |-> log]
    ELSE IF args.s3_bucket /\ ~uploaded
    THEN [dirs |-> dirs, bytes |-> bytes, idx |-> idx, log |-> Append(log, dirs)]
    ELSE [dirs |-> <<>>, bytes |-> 0, idx |-> idx + 1, log |-> Append(log, dirs)]

SetBatch(b) ==
    /\ batch_dirs' = b.dirs
    /\ batch_bytes' = b.bytes
    /\ batch_idx' = b.idx
    /\ tar_log' = b.log

\* res = result_q.get(timeout=60) and the rest of the loop body; sz is what
\* get_dir_size_bytes(out_dir) returns.
MainCollect ==
    /\ m_pc = "collect"
    /\ done < args.n_samples
    /\ result_q # <<>>
    /\ result_q' = Tail(result_q)
    /\ done' = done + 1
    /\ received' = Append(received, [ok |-> Head(result_q).ok, idx |-> Head(result_q).idx])
    /\ \E uploaded \in BOOLEAN, sz \in DirSizes :
        LET res == Head(result_q)
        IN  IF ~res.ok
            THEN UNCHANGED <<batch_dirs, batch_bytes, batch_idx, tar_log>>
            ELSE IF batch_bytes + sz >= args.target_bytes
            THEN SetBatch(FlushBatch(Append(batch_dirs, res.out_dir), batch_bytes + sz,
                                     batch_idx, tar_log, uploaded))
            ELSE /\ batch_dirs' = Append(batch_dirs, res.out_dir)
                 /\ batch_bytes' = batch_bytes + sz
                 /\ UNCHANGED <<batch_idx, tar_log>>
    /\ UNCHANGED <<others, args, task_q, workers, put_n, taken, m_pc>>

\* The end of the loop: the workers are joined and the rest is flushed.
MainFinish ==
    /\ m_pc = "collect"
    /\ done >= args.n_samples
    /\ \E uploaded \in BOOLEAN :
        SetBatch(FlushBatch(batch_dirs, batch_bytes, batch_idx, tar_log, uploaded))
    /\ m_pc' = "end"
    /\ UNCHANGED <<others, args, task_q, result_q, workers, put_n, done, taken, received>>

NextMain ==
    \/ MainPutTask
    \/ MainPutStop
    \/ \E w \in DOMAIN workers : WorkerGetTask(w)
    \/ \E w \in DOMAIN workers : WorkerStop(w)
    \/ \E w \in DOMAIN workers : WorkerEnsure(w)
    \/ \E w \in DOMAIN workers : WorkerCall(w)
    \/ \E w \in DOMAIN workers : WorkerRetry(w)
    \/ MainCollect
    \/ MainFinish

SpecMain == InitMain /\ [][NextMain]_vars

\* Every process that can take a step is scheduled, and every call returns.
SpecMainFair == SpecMain /\ WF_vars(NextMain)
(***************************************************************************)
(* What the claims speak of.                                               *)
(***************************************************************************)
NIn == Len(input0[data].blocks)
\* The i-th block as the caller handed it over.
InBlock(i) == input0[input0[data].blocks[i]]
\* The i-th placed block, and the i-th block of the returned document.
LaidBlock(i) == heap[laid_blocks[i]]
NOut == Len(heap[ret].blocks)
OutBlock(i) == heap[heap[ret].blocks[i]]
BoxW(bb) == bb[3] - bb[1]
BoxH(bb) == bb[4] - bb[2]
\* Two boxes intersect when they share interior points; touching edges do not.
Intersect(a, b) == a[1] < b[3] /\ b[1] < a[3] /\ a[2] < b[4] /\ b[2] < a[4]
InColumn(bb, c) == bb[1] = margin + c * ((page_w - 2 * margin - gutter) \div 2 + gutter)
PlacedFullWidth(i) == InBlock(i).bbox_size[1] > (page_w - 2 * margin - gutter) \div 2
\* The pic variant scaled the i-th block down.
WasScaled(i) ==
    /\ variant = "pic"
    /\ scale_to_column
    /\ InBlock(i).bbox_size[1] > page_w - 2 * margin

C2_SizeAsHandedOver ==
    status = "ok" =>
        \A i \in 1..NOut :
            /\ BoxW(OutBlock(i).bbox) = InBlock(i).bbox_size[1]
            /\ BoxH(OutBlock(i).bbox) = InBlock(i).bbox_size[2]

(***************************************************************************)
(* C2 amended: every placed block's bbox is exactly as wide and as high as *)
(* the bbox_size recorded on the placed block; that is the bbox_size the   *)
(* block was handed over with, except for a block the pic variant scaled   *)
(* down (scale_to_column set, width above page_w - 2*margin), whose size   *)
(* is page_w - 2*margin by max(1, round(h * (page_w - 2*margin) / w)).     *)
(***************************************************************************)
C2_SizeAsPlaced ==
    status = "ok" =>
        \A i \in 1..NOut :
            LET o == OutBlock(i)
                w0 == InBlock(i).bbox_size[1]
                h0 == InBlock(i).bbox_size[2]
                fw == page_w - 2 * margin
            IN  /\ BoxW(o.bbox) = o.bbox_size[1]
                /\ BoxH(o.bbox) = o.bbox_size[2]
                /\ o.bbox_size =
                     IF WasScaled(i)
                     THEN <<fw, Max(1, RoundHalfEven(h0 * fw, w0))>>
                     ELSE <<w0, h0>>

\* A page with a block the pic variant scaled down.
C2_Witness ==
    /\ status = "ok"
    /\ \E i \in 1..NOut : WasScaled(i) /\ BoxH(OutBlock(i).bbox) < InBlock(i).bbox_size[2]

(***************************************************************************)
(* C3 as stated: after generate_layout succeeds every bbox lies within the *)
(* page, 0 <= x0 <= x1 <= width and 0 <= y0 <= y1 <= height, for the page  *)
(* size given to the call and for the page recorded in the document.       *)
(***************************************************************************)
C3_WithinPage ==
    status = "ok" =>
        \A i \in 1..NOut :
            LET bb == OutBlock(i).bbox
                pg == heap[ret].page
            IN  /\ 0 <= bb[1] /\ bb[1] <= bb[3]
                /\ 0 <= bb[2] /\ bb[2] <= bb[4]
                /\ bb[3] <= page_w /\ bb[4] <= page_h
                /\ bb[3] <= pg[1] /\ bb[4] <= pg[2]

(***************************************************************************)
(* C4 as stated: a block placed as a columnar block is at most             *)
(* (page_w - 2*margin - gutter) div 2 wide, and a block placed as a        *)
(* full-width block is at most page_w - 2*margin wide.                     *)
(***************************************************************************)
C4_WidthBound ==
    status = "ok" =>
        \A i \in 1..NOut :
            BoxW(OutBlock(i).bbox) <=
                IF PlacedFullWidth(i)
                THEN page_w - 2 * margin
                ELSE (page_w - 2 * margin - gutter) \div 2

(***************************************************************************)
(* C5: a block that has no room (a columnar block that fits at neither     *)
(* column's cursor, a full-width block that does not fit below the lower   *)
(* cursor) makes generate_layout raise at that block: every block before   *)
(* it was placed, no document is returned, and a returned document holds   *)
(* every input block.                                                      *)
(***************************************************************************)
C5_HasNoRoom ==
    LET h == CurSize[2]
        limit == page_h - margin
    IN  IF PlacedFullWidth(k)
        THEN Max(y_col[1], y_col[2]) + h > limit
        ELSE y_col[1] + h > limit /\ y_col[2] + h > limit

C5_Inv ==
    /\ status \in {"no_fit", "too_tall"} =>
          /\ ret = 0
          /\ Len(laid_blocks) = k - 1
          /\ C5_HasNoRoom
    /\ ret # 0 => status = "ok"
    /\ status = "ok" => NOut = NIn /\ heap[ret].blocks = laid_blocks

C5_Step ==
    (InLoop /\ ~BadSize /\ C5_HasNoRoom) =>
        /\ status' \in {"no_fit", "too_tall"}
        /\ ret' = 0
        /\ laid_blocks' = laid_blocks

C5_OverflowIsFatal == [](C5_Inv) /\ [][C5_Step]_vars

\* The second or a later block had no room although it was not too tall.
C5_Witness ==
    /\ status = "no_fit"
    /\ Len(laid_blocks) >= 1

(***************************************************************************)
(* C6 as stated: a block whose height exceeds page_h - 2*margin always     *)
(* makes generate_layout fail, whatever its width.                         *)
(***************************************************************************)
C6_TallAlwaysFails ==
    status = "ok" =>
        \A i \in 1..NIn : InBlock(i).bbox_size[2] <= page_h - 2 * margin

(***************************************************************************)
(* C6 amended: a block whose height as placed exceeds page_h - 2*margin    *)
(* always makes generate_layout fail with an overflow error; the height as *)
(* placed is the block's own height, except in the pic variant with        *)
(* scale_to_column for a block wider than page_w - 2*margin, where it is   *)
(* the height scaled down with the width.                                  *)
(***************************************************************************)
C6_PlacedHeight(i) ==
    LET w0 == InBlock(i).bbox_size[1]
        h0 == InBlock(i).bbox_size[2]
        fw == page_w - 2 * margin
    IN  IF WasScaled(i) THEN Max(1, RoundHalfEven(h0 * fw, w0)) ELSE h0

C6_Inv ==
    /\ status = "ok" =>
          \A i \in 1..NIn : C6_PlacedHeight(i) <= page_h - 2 * margin
    /\ \A i \in 1..Len(laid_blocks) :
          C6_PlacedHeight(i) <= page_h - 2 * margin

C6_Step ==
    (InLoop /\ ~BadSize /\ C6_PlacedHeight(k) > page_h - 2 * margin) =>
        status' \in {"too_tall", "no_fit"} /\ ret' = 0

C6_TallAsPlacedFails == [](C6_Inv) /\ [][C6_Step]_vars

\* A too tall block met after both columns were used, their cursors apart.
C6_Witness ==
    /\ status = "too_tall"
    /\ Len(laid_blocks) >= 2
    /\ y_col[1] # y_col[2]
    /\ C6_PlacedHeight(k) > page_h - 2 * margin

(***************************************************************************)
(* C7: blocks are placed in input order and never re-ordered: the placed   *)
(* blocks are the input blocks so far, with the same ids in the same       *)
(* order, a returned document holds exactly the input blocks, and placing  *)
(* a further block never changes a block placed before.                    *)
(***************************************************************************)
C7_Inv ==
    /\ \A i \in 1..Len(laid_blocks) : LaidBlock(i).id = InBlock(i).id
    /\ status = "ok" =>
          /\ NOut = NIn
          /\ \A i \in 1..NOut : OutBlock(i).id = InBlock(i).id

C7_Step ==
    \A i \in 1..Len(laid_blocks) :
        /\ Len(laid_blocks') >= i
        /\ heap'[laid_blocks'[i]] = heap[laid_blocks[i]]

C7_InputOrder == [](C7_Inv) /\ [][C7_Step]_vars

\* Three blocks on the page, the second one in the other column.
C7_Witness ==
    /\ status = "ok"
    /\ NOut >= 3
    /\ InColumn(OutBlock(1).bbox, 0)
    /\ InColumn(OutBlock(2).bbox, 1)
    /\ ~PlacedFullWidth(2)

(***************************************************************************)
(* C8 as stated: after the overlap resolver has run on a block's words,    *)
(* for every pair of adjacent logical lines the largest bottom y of the    *)
(* upper line's words is at most the smallest top y of the lower line's    *)
(* words, whatever the word sizes and the leading.                         *)
(***************************************************************************)
C8_LinesApart ==
    pc_t = "done" =>
        \A i \in 1..(Len(line_word_indices) - 1) :
            (line_word_indices[i] # <<>> /\ line_word_indices[i + 1] # <<>>) =>
                UpperBottom(out_words, line_word_indices[i])
                    <= LowerTop(out_words, line_word_indices[i + 1])

C10_Records(h, a) ==
    {a} \cup Range(h[a].blocks)
        \cup UNION {IF HasKey(h[b], "words") THEN Range(h[b].words) ELSE {} :
                    b \in Range(h[a].blocks)}

C10_Inv ==
    /\ Len(heap) >= Len(input0)
    /\ \A a \in 1..Len(input0) : heap[a] = input0[a]
    /\ (s_pc = "done" /\ status = "idle") =>
          \A a \in C10_Records(heap, sized) : a > Len(input0)
    /\ status = "ok" =>
          \A a \in C10_Records(heap, ret) : a > Len(input0)

C10_Step == style_map' = style_map

C10_InputUntouched == [](C10_Inv) /\ [][C10_Step]_vars

\* The second run on the same document returned a page of two blocks, one
\* of them with words, laid out from the estimator's document.
C10_Witness ==
    /\ run = 2
    /\ status = "ok"
    /\ Len(heap[ret].blocks) = 2
    /\ \E i \in 1..2 :
          /\ HasKey(heap[heap[ret].blocks[i]], "words")
          /\ heap[heap[ret].blocks[i]].words # <<>>
          /\ HasKey(input0[input0[data].blocks[i]], "words")

(***************************************************************************)
(* C11 as stated: configuration errors, overflow errors and malformed-     *)
(* input errors reach the caller as distinct error kinds: the class of the *)
(* exception a failed call raises is raised for no failure of another of   *)
(* the three groups.                                                       *)
(***************************************************************************)
C11_DistinctKinds ==
    \A group \in {ConfigErrors, OverflowErrors, MalformedErrors} :
        status \in group =>
            \A other \in (ConfigErrors \cup OverflowErrors \cup MalformedErrors) \ group :
                ErrorClass(other) # ErrorClass(status)

(***************************************************************************)
(* C12 as stated: every line returned by wrap_text_to_lines measures at    *)
(* most the maximum width, except a line that is a single character of a   *)
(* hard-broken token, for every text and every maximum width.              *)
(***************************************************************************)
C12_LineFits(line, limit) ==
    \/ string_width_px(line, EstFont) <= limit * SubPx
    \/ Len(line) = 1 /\ line[1] \notin Whitespace

C12_WidthBound ==
    \A i \in 1..Len(e_lines) : C12_LineFits(e_lines[i], EstTextWidth)

(***************************************************************************)
(* C12 amended: every line returned by wrap_text_to_lines measures at most *)
(* the maximum width, or at most 0 when the maximum width is negative (the *)
(* empty line of an empty segment), except a line that is a single         *)
(* character of a hard-broken token.                                       *)
(***************************************************************************)
C12_WidthBoundFromZero ==
    \A i \in 1..Len(e_lines) : C12_LineFits(e_lines[i], Max(EstTextWidth, 0))

\* A wrap that hard-broke a token down to a character wider than the limit
\* and returned other lines as well.
C12_Witness ==
    /\ e_pc = "done"
    /\ EstTextWidth > 0
    /\ Len(e_lines) >= 3
    /\ \E i \in 1..Len(e_lines) :
          /\ Len(e_lines[i]) = 1
          /\ string_width_px(e_lines[i], EstFont) > EstTextWidth * SubPx
    /\ \E i \in 1..Len(e_lines) :
          /\ e_lines[i] # <<>>
          /\ string_width_px(e_lines[i], EstFont) <= EstTextWidth * SubPx

(***************************************************************************)
(* C13: wrapping is idempotent per line: wrapping a line returned by        *)
(* wrap_text_to_lines alone, the maximum width being the line's own         *)
(* measured width, returns exactly that one line.                           *)
(***************************************************************************)
C13_Idempotent ==
    \A i \in 1..Len(e_rewrap) : e_rewrap[i] = <<e_lines[i]>>

\* Lines with inner and trailing spaces, a chunk of a hard-broken token and
\* the empty line were wrapped again.
C13_Witness ==
    /\ e_pc = "done"
    /\ Len(e_rewrap) >= 2
    /\ \E i \in 1..Len(e_rewrap) :
          \E j \in 1..Len(e_lines[i]) : e_lines[i][j] = " "
    /\ \E i \in 1..Len(e_rewrap) :
          e_lines[i] = <<>> \/ string_width_px(e_lines[i], EstFont) > EstTextWidth * SubPx

(***************************************************************************)
(* C14 as stated: for a content with explicit line breaks, the newline     *)
(* markers of the token sequence built from its wrapped lines partition    *)
(* the words into exactly as many logical lines as splitting the content   *)
(* on the explicit breaks gives, for every maximum width.                  *)
(***************************************************************************)
\* The logical lines the typesetter makes of the tokens: one, and one more
\* for every newline marker.
C14_LogicalLines(toks) == 1 + Cardinality({i \in 1..Len(toks) : toks[i].content = NL})
C14_HasBreak == \E i \in 1..Len(e_content) : e_content[i] = "\n"

C15_LinePerSegment ==
    e_pc \notin {"idle", "wrap"} =>
        /\ Len(e_lines) >= 1
        /\ e_content = <<>> => e_lines = << <<>> >>
        /\ \A s \in 1..Len(EstSegments) :
              Len(wrap_one_line(EstSegments[s], EstTextWidth * SubPx, EstFont)) >= 1
        /\ Len(e_lines) >= Len(EstSegments)

(***************************************************************************)
(* C16 as stated: a block whose type has no profile in the style map is    *)
(* sized, placed and typeset with the 'paragraph' profile in every stage   *)
(* of the pipeline; with a 'paragraph' profile in the style map the        *)
(* pipeline does not fail for want of a profile.                           *)
(***************************************************************************)
C16_FallsBackEverywhere ==
    HasKey(style_map.profiles, "paragraph") =>
        /\ status # "key_error"
        /\ status = "ok" =>
              \A i \in 1..Len(heap[ret].blocks) :
                  heap[heap[ret].blocks[i]].font =
                      StyleFor(style_map, heap[heap[ret].blocks[i]].type).font_name

(***************************************************************************)
(* C17 as stated: generate_layout fails with a configuration error, before *)
(* placing any block, whenever page_w - 2*margin <= 0, or the column width *)
(* (page_w - 2*margin - gutter) div 2 <= 0, or page_h - 2*margin <= 0;     *)
(* whenever it goes on to place blocks the column width is at least 1.     *)
(***************************************************************************)
C17_GeometryChecked ==
    /\ (status # "start" /\ (full_w <= 0 \/ col_w <= 0 \/ max_col_h <= 0)) =>
          (status = "config_error" /\ laid_blocks = <<>>)
    /\ status \notin {"start", "config_error"} => col_w >= 1

(***************************************************************************)
(* C18 as stated: in the document generate_json_with_sizes returns, every  *)
(* text block carries lines equal to the wrap of its own content and words *)
(* made of those lines, and a figure block carries neither lines nor       *)
(* words, whatever the order of text and figure blocks.                    *)
(***************************************************************************)
C18_OwnWrap(b, mw) ==
    measure_bbox_size_for_block(b.content, mw, StyleFor(style_map, b.type),
                                style_map.padding_pt).lines

C18_OwnLinesAndWords ==
    (s_pc = "done" /\ sized # 0) =>
        \A i \in 1..Len(heap[sized].blocks) :
            LET b == heap[heap[sized].blocks[i]]
            IN  IF b.type = "figure"
                THEN ~HasKey(b, "lines") /\ ~HasKey(b, "words")
                ELSE /\ HasKey(b, "lines") /\ HasKey(b, "words")
                     /\ \E mw \in {WideMaxWidth, NarrowMaxWidth} :
                           b.lines = C18_OwnWrap(b, mw)
                     /\ [j \in 1..Len(b.words) |-> [content |-> heap[b.words[j]].content]]
                            = split_lines_to_tokens(b.lines, 1)

(***************************************************************************)
(* C19 as stated: the estimate of a block with empty content is a box of   *)
(* exactly 1 by 1 pixels, for every style and every maximum width.         *)
(***************************************************************************)
C19_EmptyIsMinimal ==
    (e_content = <<>> /\ e_size # <<>>) => (e_size.w = 1 /\ e_size.h = 1)

(***************************************************************************)
(* C20: a block is placed full-width if and only if its width as given     *)
(* exceeds the column width (page_w - 2*margin - gutter) div 2.  A block   *)
(* placed full-width starts at the left margin and at the larger of the two *)
(* column cursors, moves both cursors to its bottom edge plus v_gap and    *)
(* leaves the current column as it was; a block that is no wider than a    *)
(* column starts at a column's left edge and at that column's cursor, and  *)
(* leaves the other column's cursor where it was.                          *)
(***************************************************************************)
C20_ColumnWidth == (page_w - 2 * margin - gutter) \div 2
C20_Placed == InLoop /\ k' = k + 1
C20_NewBox == heap'[laid_blocks'[Len(laid_blocks')]].bbox
C20_Full ==
    /\ C20_NewBox[1] = margin
    /\ C20_NewBox[2] = Max(y_col[1], y_col[2])
    /\ y_col'[1] = C20_NewBox[4] + v_gap
    /\ y_col'[2] = C20_NewBox[4] + v_gap
    /\ col_idx' = col_idx
C20_Columnar ==
    /\ C20_NewBox[1] = IF col_idx' = 0 THEN margin
                       ELSE margin + C20_ColumnWidth + gutter
    /\ C20_NewBox[2] = y_col[col_idx' + 1]
    /\ y_col'[col_idx' + 1] = C20_NewBox[4] + v_gap
    /\ y_col'[2 - col_idx'] = y_col[2 - col_idx']
C20_Step ==
    C20_Placed =>
        IF CurW0 > C20_ColumnWidth THEN C20_Full ELSE C20_Columnar
C20_FullWidthRouting == [][C20_Step]_vars
\* A full-width block was placed below a columnar one, where the two cursors
\* differed, and the loop goes on from below it.
C20_Witness ==
    /\ status = "loop"
    /\ Len(laid_blocks) = 2
    /\ LET b1 == heap[laid_blocks[1]].bbox
           b2 == heap[laid_blocks[2]].bbox
       IN  /\ b1[3] - b1[1] <= C20_ColumnWidth
           /\ b2[3] - b2[1] > C20_ColumnWidth
           /\ b2[1] = margin
           /\ b2[2] = b1[4] + v_gap
           /\ b2[2] > top_y
           /\ y_col = <<b2[4] + v_gap, b2[4] + v_gap>>

(***************************************************************************)
(* C21: a block no wider than a column is placed in the current column, at *)
(* that column's cursor, whenever it ends there at or above the bottom     *)
(* margin; only otherwise is it placed in the other column, at the other   *)
(* column's own cursor, where it then fits.  The column used becomes the   *)
(* current column, its cursor moves to the block's bottom edge plus v_gap, *)
(* and the other column's cursor stays where it was.                       *)
(***************************************************************************)
C21_ColX(c) == IF c = 0 THEN margin ELSE margin + (page_w - 2 * margin - gutter) \div 2 + gutter
C21_FitsAt(y, box) == y + (box[4] - box[2]) <= page_h - margin
C21_NewBox == heap'[laid_blocks'[Len(laid_blocks')]].bbox
C21_Step ==
    (InLoop /\ k' = k + 1 /\ CurW0 <= (page_w - 2 * margin - gutter) \div 2) =>
        LET used == IF C21_FitsAt(y_col[col_idx + 1], C21_NewBox)
                    THEN col_idx ELSE 1 - col_idx
        IN  /\ col_idx' = used
            /\ C21_FitsAt(y_col[used + 1], C21_NewBox)
            /\ C21_NewBox[1] = C21_ColX(used)
            /\ C21_NewBox[2] = y_col[used + 1]
            /\ y_col'[used + 1] = C21_NewBox[4] + v_gap
            /\ y_col'[2 - used] = y_col[2 - used]
C21_ColumnRouting == [][C21_Step]_vars
\* Two blocks one column cannot hold both: the first in the left column, the
\* second at the top of the right one, which is now the current column.
C21_Witness ==
    /\ status = "loop"
    /\ Len(laid_blocks) = 2
    /\ col_idx = 1
    /\ LET b1 == heap[laid_blocks[1]].bbox
           b2 == heap[laid_blocks[2]].bbox
       IN  /\ b1[1] = C21_ColX(0) /\ b1[2] = margin
           /\ b2[1] = C21_ColX(1) /\ b2[2] = margin
           /\ b1[4] + v_gap + (b2[4] - b2[2]) > page_h - margin
           /\ y_col = <<b1[4] + v_gap, b2[4] + v_gap>>

(***************************************************************************)
(* C22 as stated: the typesetter wraps a word that would end beyond the    *)
(* block's right edge, so that in the words it returns none but the first  *)
(* word of a line ends to the right of the block bbox's right edge (a      *)
(* pixel of tolerance allowed).                                            *)
(***************************************************************************)
C22_WrapsAtRightEdge ==
    pc_t = "done" =>
        \A l \in 1..Len(line_word_indices) :
            \A j \in 2..Len(line_word_indices[l]) :
                out_words[line_word_indices[l][j]].bbox[3] <= block_bbox[3] + 1

(***************************************************************************)
(* C23 as stated: the words returned by the typesetter have one entry per  *)
(* input token, in the same order, and the entry of a newline marker has a *)
(* bbox of no width and no height.                                         *)
(***************************************************************************)
C23_EntryPerToken ==
    pc_t = "done" =>
        /\ Len(out_words) = Len(words)
        /\ \A i \in 1..Len(words) :
            /\ out_words[i].content = words[i].content
            /\ words[i].content = NL =>
                /\ out_words[i].bbox[1] = out_words[i].bbox[3]
                /\ out_words[i].bbox[2] = out_words[i].bbox[4]

(***************************************************************************)
(* C24 as stated: at a newline marker the cursor goes back to the padded   *)
(* left edge and down by leading_px if the leading is positive, and        *)
(* otherwise down by the height of the line just finished.                 *)
(***************************************************************************)
C24_Step ==
    (pc_t = "words" /\ w_i' = w_i + 1 /\ words[w_i].content = NL) =>
        /\ cursor_x' = block_bbox[1] * SubPx + padding_px
        /\ cursor_y' = cursor_y + (IF leading_px > 0 THEN leading_px ELSE current_line_h)
C24_LineAdvance == [][C24_Step]_vars

(***************************************************************************)
(* C25 as stated: a word record without a size is skipped: the typesetter  *)
(* goes on to the next token, with the cursor and the words placed so far  *)
(* as they were, and does not fail.                                        *)
(***************************************************************************)
C25_Step ==
    (pc_t = "words" /\ w_i <= Len(words) /\ ~HasKey(words[w_i], "bbox_size")) =>
        /\ pc_t' = "words"
        /\ w_i' = w_i + 1
        /\ UNCHANGED <<cursor_x, cursor_y, out_words>>
C25_SizelessSkipped == [][C25_Step]_vars

(***************************************************************************)
(* C26: in the words the typesetter returns, the words of one logical line *)
(* run left to right, each starting at or after the right edge of the one  *)
(* before it, and every word of a later line has its top at or below the   *)
(* top of every word of an earlier line.                                   *)
(***************************************************************************)
C26_LineWord(l, j) == out_words[line_word_indices[l][j]]
C26_LeftToRight ==
    \A l \in 1..Len(line_word_indices) :
        \A j \in 2..Len(line_word_indices[l]) :
            C26_LineWord(l, j).bbox[1] >= C26_LineWord(l, j - 1).bbox[3]
C26_TopToBottom ==
    \A l1, l2 \in 1..Len(line_word_indices) :
        l1 < l2 =>
            \A j1 \in 1..Len(line_word_indices[l1]), j2 \in 1..Len(line_word_indices[l2]) :
                C26_LineWord(l2, j2).bbox[2] >= C26_LineWord(l1, j1).bbox[2]
C26_ReadingOrder == pc_t = "done" => (C26_LeftToRight /\ C26_TopToBottom)

(***************************************************************************)
(* C27: the overlap resolver never inverts a box: while it runs and after  *)
(* it has run, every word's bbox has its top at or above its bottom, also  *)
(* for a line that is clamped first as a lower and then as an upper line.  *)
(***************************************************************************)
C27_NeverInverted ==
    \A i \in 1..Len(out_words) : out_words[i].bbox[2] <= out_words[i].bbox[4]
\* The words as placed, before the resolver.
WordsAsPlaced == TsTokens(TsStart(TsParams), words, 1, TsParams).out_words
\* The resolver has raised the top and lowered the bottom of one word.
C27_Witness ==
    /\ pc_t = "done"
    /\ \E i \in 1..Len(out_words) :
        /\ out_words[i].bbox[2] > WordsAsPlaced[i].bbox[2]
        /\ out_words[i].bbox[4] < WordsAsPlaced[i].bbox[4]

(***************************************************************************)
(* C28: a turn of the overlap resolver changes nothing but the top and     *)
(* bottom edges of words of the two adjacent lines it is at: the number    *)
(* and order of the words, every word's content, size, left and right edge *)
(* stay as they were, the words of other lines stay as they were, and a    *)
(* pair whose upper bottom is at or above the lower top changes nothing.   *)
(***************************************************************************)
C28_InPair(i) ==
    \/ \E j \in 1..Len(line_word_indices[f_i]) : line_word_indices[f_i][j] = i
    \/ \E j \in 1..Len(line_word_indices[f_i + 1]) : line_word_indices[f_i + 1][j] = i
C28_Bottoms == {out_words[line_word_indices[f_i][j]].bbox[4] :
                    j \in 1..Len(line_word_indices[f_i])}
C28_Tops == {out_words[line_word_indices[f_i + 1][j]].bbox[2] :
                    j \in 1..Len(line_word_indices[f_i + 1])}
C28_Step ==
    (pc_t = "fix" /\ f_i' = f_i + 1) =>
        /\ Len(out_words') = Len(out_words)
        /\ \A i \in 1..Len(out_words) :
            /\ out_words'[i].content = out_words[i].content
            /\ out_words'[i].bbox_size = out_words[i].bbox_size
            /\ out_words'[i].bbox[1] = out_words[i].bbox[1]
            /\ out_words'[i].bbox[3] = out_words[i].bbox[3]
            /\ ~C28_InPair(i) => out_words'[i] = out_words[i]
        /\ (\A u \in C28_Bottoms : \A l \in C28_Tops : u <= l) => out_words' = out_words
C28_OnlyVerticalEdges == [][C28_Step]_vars
\* The resolver is done: it clamped a line of three or more and left a
\* pair of lines that did not overlap as it was.
C28_Witness ==
    /\ pc_t = "done"
    /\ Len(line_word_indices) >= 3
    /\ \E i \in 1..Len(out_words) : out_words[i].bbox # WordsAsPlaced[i].bbox
    /\ \E l \in 1..(Len(line_word_indices) - 1) :
        /\ line_word_indices[l] # <<>> /\ line_word_indices[l + 1] # <<>>
        /\ \A j \in 1..Len(line_word_indices[l]), j2 \in 1..Len(line_word_indices[l + 1]) :
            WordsAsPlaced[line_word_indices[l][j]].bbox[4]
                <= WordsAsPlaced[line_word_indices[l + 1][j2]].bbox[2]

(***************************************************************************)
(* C29 as stated: for an adjacent pair of lines that overlap (the largest  *)
(* bottom U of the upper line greater than the smallest top L of the lower *)
(* line) the boundary b is the harmonic mean 2*U*L/(U+L) rounded to an     *)
(* integer, it lies between L and U, every bottom of the upper line that   *)
(* is greater than b becomes b and every top of the lower line that is     *)
(* smaller than b becomes b.                                               *)
(***************************************************************************)
C29_Abs(x) == IF x < 0 THEN -x ELSE x
C29_IsHarmonicMean(b, U, L) == 2 * C29_Abs(b * (U + L) - 2 * U * L) <= U + L
C29_Clamped(U, L, b) ==
    /\ L <= b /\ b <= U
    /\ \A j \in 1..Len(line_word_indices[f_i]) :
        LET i == line_word_indices[f_i][j]
        IN  out_words[i].bbox[4] > b => out_words'[i].bbox[4] = b
    /\ \A j \in 1..Len(line_word_indices[f_i + 1]) :
        LET i == line_word_indices[f_i + 1][j]
        IN  out_words[i].bbox[2] < b => out_words'[i].bbox[2] = b
C29_Step ==
    (/\ pc_t = "fix" /\ f_i' = f_i + 1
     /\ C28_Bottoms # {} /\ C28_Tops # {}
     /\ \E u \in C28_Bottoms : \E l \in C28_Tops : u > l) =>
        \E U \in C28_Bottoms : \E L \in C28_Tops :
            /\ \A u \in C28_Bottoms : u <= U
            /\ \A l \in C28_Tops : l >= L
            /\ \E b \in L..U : C29_IsHarmonicMean(b, U, L) /\ C29_Clamped(U, L, b)
C29_ClampedToWord(U, L, b) ==
    /\ L <= b /\ b <= U
    /\ \A j \in 1..Len(line_word_indices[f_i]) :
        LET i == line_word_indices[f_i][j]
            bb == out_words[i].bbox
        IN  bb[4] > b => out_words'[i].bbox[4] = (IF b < bb[2] THEN bb[2] ELSE b)
    /\ \A j \in 1..Len(line_word_indices[f_i + 1]) :
        LET i == line_word_indices[f_i + 1][j]
            bb == out_words[i].bbox
        IN  bb[2] < b => out_words'[i].bbox[2] = (IF b > bb[4] THEN bb[4] ELSE b)
C29_StepToWord ==
    (/\ pc_t = "fix" /\ f_i' = f_i + 1
     /\ C28_Bottoms # {} /\ C28_Tops # {}
     /\ \E u \in C28_Bottoms : \E l \in C28_Tops : u > l) =>
        \E U \in C28_Bottoms : \E L \in C28_Tops :
            /\ \A u \in C28_Bottoms : u <= U
            /\ \A l \in C28_Tops : l >= L
            /\ \E b \in L..U : C29_IsHarmonicMean(b, U, L) /\ C29_ClampedToWord(U, L, b)
C30_Blank == {" ", "\t", "\n"}
RECURSIVE C30_Ink(_)
C30_Ink(s) ==
    IF s = <<>> THEN <<>>
    ELSE (IF Head(s) \in C30_Blank THEN <<>> ELSE <<Head(s)>>) \o C30_Ink(Tail(s))
RECURSIVE C30_Joined(_)
C30_Joined(lns) == IF lns = <<>> THEN <<>> ELSE Head(lns) \o C30_Joined(Tail(lns))
C30_Kept ==
    e_pc # "wrap" =>
        /\ C30_Ink(C30_Joined(e_lines)) = C30_Ink(e_content)
        /\ (\E i \in 1..Len(e_lines) : e_lines[i] = <<>>)
               => \E j \in 1..Len(EstSegments) : EstSegments[j] = <<>>
\* While the wrap runs, the segments wrapped so far never exceed the text's.
C30_InRange == e_pc = "wrap" => e_seg \in 1..(Len(EstSegments) + 1)
\* Every step of the wrap takes a segment off those left, or returns.
C30_Progress ==
    e_pc = "wrap" => (e_seg' = e_seg + 1 \/ (e_seg' = e_seg /\ e_pc' = "measure"))
C30_Step ==
    /\ C30_Kept /\ C30_InRange
    /\ C30_Kept' /\ C30_InRange'
    /\ C30_Progress
C30_KeepsAndReturns == [][C30_Step]_vars
\* A token of two wide glyphs, each wider than the limit, came back as two
\* lines of one glyph.
C30_Witness ==
    /\ e_pc = "done"
    /\ e_lines = << <<"W">>, <<"W">> >>
    /\ string_width_px(<<"W">>, EstFont) > EstTextWidth * SubPx

(***************************************************************************)
(* C31 as stated: wrap_text_to_lines called with a maximum width of zero   *)
(* or less returns, for every text, the lines it returns for the maximum   *)
(* width 1.                                                                *)
(***************************************************************************)
C31_AsWidthOne ==
    (wr_pc = "done" /\ wr_limit <= 0) =>
        wr_lines = wrap_text_to_lines(wr_text, 1, wr_font)

(***************************************************************************)
(* C31 amended: wrap_text_to_lines has no special case for a maximum width *)
(* of zero or less; it returns the lines it returns for the maximum width  *)
(* 1 whenever no two characters of the text, the first of them not a       *)
(* space, fit into one pixel together, as in every font of a legible size. *)
(***************************************************************************)
C31_NoPairInAPixel ==
    \A i \in 1..(Len(wr_text) - 1) :
        (wr_text[i] \notin {" ", "\n"} /\ wr_text[i + 1] # "\n") =>
            GlyphW(wr_text[i], wr_font) + GlyphW(wr_text[i + 1], wr_font) > SubPx
C31_AsWidthOneIfLegible ==
    (wr_pc = "done" /\ wr_limit <= 0 /\ C31_NoPairInAPixel) =>
        wr_lines = wrap_text_to_lines(wr_text, 1, wr_font)
\* A word of two characters, with a limit below zero, came back as two lines.
C31_Witness ==
    /\ wr_pc = "done"
    /\ wr_limit < 0
    /\ C31_NoPairInAPixel
    /\ wr_text = <<"a", "W", " ", "a">>
    /\ wr_lines = << <<"a">>, <<"W">>, <<"a">> >>

(***************************************************************************)
(* C32 as stated: called with the same page geometry and the same blocks,  *)
(* none wider than page_w - 2*margin, the two variants of generate_layout  *)
(* either both raise at the same block or both return, with the same bbox  *)
(* for every block.                                                        *)
(***************************************************************************)
C32_BothOver == variant = "pic" /\ both_first # <<>> /\ CallEnded
C32_InBlocks == [i \in 1..Len(input0[data].blocks) |-> input0[input0[data].blocks[i]]]
C32_NoneTooWide ==
    \A i \in 1..Len(C32_InBlocks) : C32_InBlocks[i].bbox_size[1] <= page_w - 2 * margin
C32_VariantsAgree ==
    (C32_BothOver /\ C32_NoneTooWide) => CallOutcome = both_first

C33_PositiveHeights ==
    \A i \in 1..Len(input0[data].blocks) :
        LET b == input0[input0[data].blocks[i]]
        IN  HasKey(b, "bbox_size") => b.bbox_size[2] > 0
C33_InRange ==
    status \in {"loop", "ok"} =>
        /\ \A c \in 1..2 : y_col[c] >= margin /\ y_col[c] <= page_h - margin + v_gap
        /\ \A i \in 1..Len(laid_blocks) :
            /\ heap[laid_blocks[i]].bbox[2] >= margin
            /\ heap[laid_blocks[i]].bbox[4] <= page_h - margin
C33_Step ==
    C33_PositiveHeights =>
        /\ C33_InRange /\ C33_InRange'
        /\ (status = "loop" /\ status' \in {"loop", "ok"}) =>
               \A c \in 1..2 : y_col'[c] >= y_col[c]
C34_Inside(w, b, pad) ==
    /\ b[1] * SubPx + pad <= w[1] * SubPx
    /\ w[3] * SubPx <= b[3] * SubPx - pad
    /\ b[2] * SubPx + pad <= w[2] * SubPx
    /\ w[4] * SubPx <= b[4] * SubPx - pad
C34_Within(w, b, pad) ==
    /\ b[1] * SubPx + pad - SubPx < w[1] * SubPx
    /\ w[3] * SubPx < b[3] * SubPx - pad + SubPx
    /\ b[2] * SubPx + pad - SubPx < w[2] * SubPx
    /\ w[4] * SubPx < b[4] * SubPx - pad + SubPx
C35_ResultsFor(i) ==
    Cardinality({j \in DOMAIN result_q : result_q[j].idx = i})
        + Cardinality({j \in DOMAIN received : received[j].idx = i})
C35_Busy(w) == workers[w].pc \in {"ensure", "call", "retry"}
C35_InWork(i) == \E w \in DOMAIN workers : C35_Busy(w) /\ workers[w].task.idx = i
C35_OneResultEach ==
    /\ \A i \in 0..(args.n_samples - 1) :
        /\ taken[i + 1] <= 1
        /\ C35_ResultsFor(i) = (IF taken[i + 1] = 1 /\ ~C35_InWork(i) THEN 1 ELSE 0)
        /\ Cardinality({w \in DOMAIN workers : C35_Busy(w) /\ workers[w].task.idx = i})
               = (IF C35_InWork(i) THEN 1 ELSE 0)
    /\ \A w \in DOMAIN workers :
        workers[w].stops = (IF workers[w].pc = "exited" THEN 1 ELSE 0)
    /\ done = Len(received)
    /\ done <= args.n_samples
C35_RunEnded ==
    /\ m_pc = "end"
    /\ done = args.n_samples
C35_AllExited == \A w \in DOMAIN workers : workers[w].pc = "exited"
C36_Flushed == tar_log' # tar_log
C36_NoDirTwice(log) ==
    \A a, b \in DOMAIN log :
        a # b => \A i \in DOMAIN log[a], j \in DOMAIN log[b] : log[a][i] # log[b][j]
C36_Step ==
    C36_Flushed =>
        /\ batch_dirs' = <<>>
        /\ batch_bytes' = 0
        /\ batch_idx' = batch_idx + 1
        /\ C36_NoDirTwice(tar_log')
C36_FlushResetsBatch == [][C36_Step]_vars

(***************************************************************************)
(* C37: for one task the worker calls the pic (or table) pipeline at most  *)
(* twice.  A second call is made only after a first call failed with a     *)
(* message that indicates a rate limit, a not-found sandbox or a timeout   *)
(* and does not contain 'executionerror'; the sandbox is recreated before  *)
(* the second call only in the not-found case; and after the second call,  *)
(* failed or not, the task has exactly one result message and the worker   *)
(* is back at the queue.                                                   *)
(***************************************************************************)
C37_Retrying(wk) ==
    /\ wk.calls = 1
    /\ wk.task.pipeline \in {"pic", "table"}
    /\ "executionerror" \notin wk.err
    /\ is_rate_limit(wk.err) \/ is_not_found(wk.err) \/ is_timeoutish(wk.err)
    /\ wk.recreated => (is_not_found(wk.err) /\ wk.sbx)
C37_Policy ==
    \A w \in DOMAIN workers :
        IF workers[w].pc = "retry" THEN C37_Retrying(workers[w])
        ELSE workers[w].calls = 0 /\ ~workers[w].recreated
C37_Step ==
    \A w \in DOMAIN workers :
        /\ (workers[w].pc = "retry" /\ workers'[w] # workers[w]) =>
               /\ workers'[w].pc = "get"
               /\ Len(result_q') = Len(result_q) + 1
               /\ result_q'[Len(result_q')].idx = workers[w].task.idx
        /\ workers'[w].pc = "retry" => workers[w].pc \in {"call", "retry"}
        /\ (workers[w].pc = "call" /\ workers'[w].pc = "get") =>
               /\ Len(result_q') = Len(result_q) + 1
               /\ result_q'[Len(result_q')].idx = workers[w].task.idx
C37_RetryOnce == [][C37_Policy /\ C37_Policy' /\ C37_Step]_vars
\* A worker about to call the pipeline again, its sandbox recreated, while
\* the other worker retries after a timeout.
C37_Witness ==
    /\ Len(workers) = 2
    /\ workers[1].pc = "retry" /\ workers[1].recreated /\ workers[1].err = {"not found"}
    /\ workers[2].pc = "retry" /\ ~workers[2].recreated /\ workers[2].err = {"timeout"}

====
